---- MODULE Spec2Model ----
(***************************************************************************)
(* Model of the Skoda connector of CarConnectivity:                        *)
(*   - Connector._fetch_data (HTTP cache, 401 re-login, error typing),     *)
(*   - Connector._background_loop together with the threads it shares      *)
(*     connection_state with (MQTT callbacks, connect loop, shutdown),     *)
(*   - MySkodaSession.refresh_tokens and MySkodaSession.fetch_tokens.      *)
(* The specifications share the variables: SpecFetch, Spec, SpecRefresh.   *)
(***************************************************************************)
EXTENDS Integers, Sequences, FiniteSets, TLC

VARIABLES
    cache,            \* session.cache: url -> (payload, cached_at string) or NoEntry
    now,              \* datetime.utcnow(), in ticks
    max_age,          \* active_config['max_age'] (None or seconds)
    token,            \* session.token (None or a bundle)
    fd,               \* frame of the running _fetch_data call
    rt,               \* frame of the running refresh_tokens call
    ft,               \* frame of the running fetch_tokens call
    pb,               \* frame of the running parse_from_body call
    connection_state, \* Connector.connection_state.value
    rest_connected,   \* Connector.rest_connected
    mqtt_connected,   \* Connector.mqtt_connected
    healthy,          \* Connector.healthy.value
    stop_event,       \* Connector._stop_event flag
    interval_value,   \* Connector.interval.value in seconds
    bg,               \* frame of the thread running _background_loop
    mq,               \* frame of the MQTT network thread (callbacks)
    cn,               \* frame of the thread running _background_connect_loop
    main,             \* position of the host thread (startup / shutdown)
    garage,           \* car_connectivity.garage: VIN -> vehicle or NoVehicle
    msg,              \* frame of the running _on_message_callback
    delayed_access_function_timers, \* SkodaMQTTClient: VIN -> timer or NoTimer
    tm,               \* the threading.Timer objects created by the callback
    access,           \* per VIN: debounce windows opened, status re-fetches done
    subscribed_topics, \* SkodaMQTTClient.subscribed_topics
    observer,         \* _on_carconnectivity_vehicle_enabled observes the garage
    user_id,          \* Connector.user_id
    broker,           \* per topic: subscriptions the broker holds for this connection
    sub,              \* per thread: frame of the running subscription handler
    _password,        \* SkodaMQTTClient._password, the password of the next connect
    expired,          \* session.expired
    pq,               \* frame of _on_pre_connect_callback
    session_closed,   \* session.close() has been called
    persisted,        \* Connector.persist() has run in shutdown
    pr,               \* frame of fetch_driving_range
    en,               \* frame of the handling of one enum-like field of a payload
    cm,               \* frame of the running command hook
    sm,               \* the session manager, its token store and its cache
    ct,               \* the constructor of the connector: its input and its outcome
    wa,               \* frame of doWebAuth
    lg                \* per thread: its position in a login of the session

vars == <<cache, now, max_age, token, fd, rt, ft, pb, connection_state, rest_connected,
          mqtt_connected, healthy, stop_event, interval_value, bg, mq, cn, main,
          garage, msg, delayed_access_function_timers, tm, access,
          subscribed_topics, observer, user_id, broker, sub,
          _password, expired, pq, session_closed, persisted, pr,
          en, cm, sm, ct, wa, lg>>

(* the variables of the web login and of the logins of the threads *)
loginVars == <<wa, lg>>

(* the variables of the pre-connect hook of the feed *)
preVars == <<_password, expired, pq>>

(* the variables of shutdown besides the threads' state *)
shutVars == <<session_closed, persisted>>

(* the variables of the vehicle promotion besides the garage *)
promoteVars == <<pr>>

(* the variables outside the polling, the feed and the subscriptions *)
restVars == <<preVars, shutVars, promoteVars, en, cm, sm, ct, loginVars>>

(* the variables of the topic subscriptions *)
subVars == <<subscribed_topics, observer, user_id, broker, sub>>

(* the variables of the MQTT message handling *)
feedVars == <<garage, msg, delayed_access_function_timers, tm, access>>

(* the variables of the connector's threads *)
loopVars == <<connection_state, rest_connected, mqtt_connected, healthy,
              stop_event, interval_value, bg, mq, cn, main>>

(* what a step of _fetch_data leaves alone besides the session *)
outsideFetch == <<rt, ft, pb, loopVars, feedVars, subVars, restVars>>

(* what a step of refresh_tokens leaves alone besides the session *)
outsideRefresh == <<cache, now, max_age, fd, ft, pb, loopVars, feedVars, subVars, restVars>>

(* what a step of fetch_tokens leaves alone besides the session *)
outsideTokens == <<cache, now, max_age, fd, rt, pb, loopVars, feedVars, subVars, restVars>>

(* what a step of parse_from_body leaves alone *)
outsideParse == <<cache, now, max_age, token, fd, rt, ft, loopVars, feedVars, subVars, restVars>>

(* what a step of the connector's threads leaves alone *)
outsideLoop == <<cache, now, max_age, token, fd, rt, ft, pb, feedVars, subVars, restVars>>

(* what a step of the message callback or of a debounce timer leaves alone *)
outsideFeed == <<cache, now, max_age, token, fd, rt, ft, pb, loopVars, subVars, restVars>>

(* what a step of a subscription handler leaves alone *)
outsideSub == <<cache, now, max_age, token, fd, rt, ft, pb, rest_connected, healthy,
                stop_event, interval_value, bg, mq, cn, main, msg,
                delayed_access_function_timers, tm, access, restVars>>

(* what a step of the pre-connect hook leaves alone besides the session *)
outsidePre == <<cache, now, max_age, fd, ft, pb, loopVars, feedVars, subVars, shutVars,
                promoteVars, en, cm, sm, ct, loginVars>>

(* what a step of shutdown leaves alone outside the threads' state *)
outsideShutdown == <<cache, now, max_age, token, fd, rt, ft, pb, feedVars, subVars, preVars,
                     promoteVars, en, cm, sm, ct, loginVars>>

(* what a step of the vehicle promotion leaves alone *)
outsidePromote == <<cache, now, max_age, token, fd, rt, ft, pb, loopVars, msg,
                    delayed_access_function_timers, tm, access, subVars, preVars, shutVars,
                    en, cm, sm, ct, loginVars>>

(* what the handling of an enum-like field leaves alone *)
outsideEnum == <<cache, now, max_age, token, fd, rt, ft, pb, loopVars, feedVars, subVars,
                 preVars, shutVars, promoteVars, cm, sm, ct, loginVars>>

(* what a command hook leaves alone *)
outsideCommand == <<cache, now, max_age, token, fd, rt, ft, pb, loopVars, feedVars, subVars,
                    preVars, shutVars, promoteVars, en, sm, ct, loginVars>>

(* what the constructor leaves alone *)
outsideConstruct == <<cache, now, max_age, token, fd, rt, ft, pb, connection_state,
                      rest_connected, mqtt_connected, healthy, stop_event, bg, mq, cn,
                      feedVars, subVars, preVars, shutVars, promoteVars, en, cm, sm, loginVars>>

(* what the session manager leaves alone *)
outsideManager == <<cache, now, max_age, token, fd, rt, ft, pb, loopVars, feedVars, subVars,
                    preVars, shutVars, promoteVars, en, cm, ct, loginVars>>

----------------------------------------------------------------------------
(* Bounds *)

MaxTime == 2
MaxLogins == 2

(* promotions of one vehicle *)
MaxPromotions == 2

(* the runs of the connector over one token store *)
MaxRuns == 2
MaxIter == 3
MaxAttempts == 2
MaxTimers == 2

(* Python's None, where a string or payload is expected *)
None == "None"

(* Python's None, where a number (date, age, status, token) is expected *)
NoneNum == -1

(* Python's None, where a collection is expected *)
NoneSet == <<>>

(* session.get raised instead of answering *)
Raised == -2

(* Absence of a key in session.cache *)
NoEntry == <<>>

Urls == {"u1", "u2"}

(* Decoded JSON documents a 200/207 answer may carry *)
Payloads == {"p1", "p2"}

(* Response bodies: a JSON document, the JSON literal null, or no valid JSON *)
NullBody == "null"
BadBody == "not-json"
Bodies == Payloads \cup {NullBody, BadBody}

(* requests.codes *)
HTTP_OK == 200
HTTP_NO_CONTENT == 204
HTTP_MULTI_STATUS == 207
HTTP_UNAUTHORIZED == 401
HTTP_NOT_FOUND == 404
HTTP_TOO_MANY_REQUESTS == 429
HTTP_SERVER_ERROR == 500

(* Status codes the data endpoints answer with *)
Statuses == {HTTP_OK, HTTP_NO_CONTENT, HTTP_MULTI_STATUS, HTTP_UNAUTHORIZED,
             HTTP_NOT_FOUND, HTTP_TOO_MANY_REQUESTS}

(* Values of the allowed_errors argument of _fetch_data *)
AllowedErrorsArgs == {NoneSet, <<{HTTP_NOT_FOUND}>>}

(* Values of active_config['max_age'] *)
MaxAges == {NoneNum, 1}

----------------------------------------------------------------------------
(* Exceptions *)

(* requests.exceptions the except clauses of _fetch_data name *)
WrappedTransportErrors ==
    {"requests.ConnectionError", "requests.ChunkedEncodingError",
     "requests.ReadTimeout", "requests.RetryError"}

(* What session.get can raise instead of answering *)
TransportErrors == WrappedTransportErrors

(* What session.login() can raise: typed errors of the web login and token
   exchange, or a transport failure of one of its requests *)
LoginErrors == {"TemporaryAuthenticationError", "AuthenticationError",
                "APICompatibilityError", "requests.ConnectionError"}

LoginOutcomes == {"ok"} \cup LoginErrors

Return(v) == [kind |-> "return", value |-> v]
Raise(e) == [kind |-> "raise", exc |-> e]
NoResult == [kind |-> "none"]

----------------------------------------------------------------------------
(* Time stamps of the cache: str(datetime.utcnow()) and fromisoformat *)

DatetimeStr(t) == <<"iso", t>>

FromIsoFormat(s) == s[2]

(* response.json(): None for the literal null; raises on invalid JSON *)
JsonDecodes(body) == body # BadBody

Json(body) == IF body = NullBody THEN None ELSE body

----------------------------------------------------------------------------
(* session.login(): a successful login installs a fresh token bundle *)

(* session.token: the access and refresh token it holds, NoneNum when absent *)
NoToken == [access_token |-> NoneNum, refresh_token |-> NoneNum]

TokenGen(t) == IF t.access_token = NoneNum THEN 0 ELSE t.access_token

FreshToken(t) == [access_token |-> TokenGen(t) + 1, refresh_token |-> TokenGen(t) + 1]

CanLogin == TokenGen(token) < MaxLogins

----------------------------------------------------------------------------
(* Connector._fetch_data *)

FdIdle == [pc |-> "idle"]

(* line 1438: the cache is consulted *)
CacheConsulted(no_cache, url) ==
    ~no_cache /\ max_age # NoneNum /\ cache[url] # NoEntry

(* lines 1441-1442 with the comparison inverted *)
MustFetch_inverted(data, cache_date) ==
    \/ data = None
    \/ max_age = NoneNum
    \/ (cache_date # NoneNum /\ cache_date > now - max_age)

(* lines 1441-1442: whether a GET is needed *)
MustFetch(data, cache_date) ==
    \/ data = None
    \/ max_age = NoneNum
    \/ (cache_date # NoneNum /\ cache_date < now - max_age)

(* lines 1468-1481: the except clauses around the request *)
FetchExcept(exc, allow_empty) ==
    IF exc \in WrappedTransportErrors THEN Raise("RetrievalError")
    ELSE IF exc = "requests.JSONDecodeError"
         THEN (IF allow_empty THEN Return(None) ELSE Raise("RetrievalError"))
    ELSE Raise(exc)

(* line 1464 / 1466: the status is not tolerated *)
StatusRejected(status, allow_http_error, allowed_errors) ==
    \/ ~allow_http_error
    \/ (allowed_errors # NoneSet /\ status \notin allowed_errors[1])

(* lines 1434-1442 *)
FetchCall(url, no_cache, allow_empty, allow_http_error, allowed_errors) ==
    /\ fd.pc = "idle"
    /\ LET hit == CacheConsulted(no_cache, url)
           data == IF hit THEN cache[url][1] ELSE None
           cache_date == IF hit THEN FromIsoFormat(cache[url][2]) ELSE NoneNum
           fetch == MustFetch(data, cache_date)
       IN fd' = [pc |-> IF fetch THEN "get" ELSE "done",
                 url |-> url, no_cache |-> no_cache, allow_empty |-> allow_empty,
                 allow_http_error |-> allow_http_error, allowed_errors |-> allowed_errors,
                 data |-> data,
                 entry0 |-> cache[url], now0 |-> now,
                 gets |-> 0, logins |-> 0,
                 status1 |-> NoneNum, status2 |-> NoneNum, body2 |-> None,
                 login |-> None,
                 result |-> IF fetch THEN NoResult ELSE Return(data)]
    /\ UNCHANGED <<cache, now, max_age, token, outsideFetch>>

FinishGet(result, status) ==
    fd' = [fd EXCEPT !.pc = "done", !.result = result, !.gets = @ + 1, !.status1 = status]

(* lines 1444-1456 and 1466-1467: the first GET answers with a status *)
FetchGetResponse(status, body) ==
    /\ fd.pc = "get"
    /\ IF status \in {HTTP_OK, HTTP_MULTI_STATUS}
       THEN IF JsonDecodes(body)
            THEN /\ cache' = [cache EXCEPT ![fd.url] = <<Json(body), DatetimeStr(now)>>]
                 /\ FinishGet(Return(Json(body)), status)
            ELSE /\ FinishGet(FetchExcept("requests.JSONDecodeError", fd.allow_empty), status)
                 /\ UNCHANGED cache
       ELSE /\ UNCHANGED cache
            /\ IF status = HTTP_NO_CONTENT /\ fd.allow_empty
               THEN FinishGet(Return(None), status)
               ELSE IF status = HTTP_TOO_MANY_REQUESTS
               THEN FinishGet(FetchExcept("TooManyRequestsError", fd.allow_empty), status)
               ELSE IF status = HTTP_UNAUTHORIZED
               THEN fd' = [fd EXCEPT !.pc = "login", !.gets = @ + 1, !.status1 = status]
               ELSE IF StatusRejected(status, fd.allow_http_error, fd.allowed_errors)
               THEN FinishGet(FetchExcept("RetrievalError", fd.allow_empty), status)
               ELSE FinishGet(Return(fd.data), status)
    /\ UNCHANGED <<now, max_age, token, outsideFetch>>

(* line 1444 raising instead of answering *)
FetchGetFails(exc) ==
    /\ fd.pc = "get"
    /\ FinishGet(FetchExcept(exc, fd.allow_empty), Raised)
    /\ UNCHANGED <<cache, now, max_age, token, outsideFetch>>

(* line 1457: session.login() *)
FetchLogin(outcome) ==
    /\ fd.pc = "login"
    /\ IF outcome = "ok"
       THEN /\ CanLogin
            /\ token' = FreshToken(token)
            /\ fd' = [fd EXCEPT !.pc = "retry", !.logins = @ + 1, !.login = outcome]
       ELSE /\ UNCHANGED token
            /\ fd' = [fd EXCEPT !.pc = "done", !.logins = @ + 1, !.login = outcome,
                                !.result = FetchExcept(outcome, fd.allow_empty)]
    /\ UNCHANGED <<cache, now, max_age, outsideFetch>>

FinishRetry(result, status, body) ==
    fd' = [fd EXCEPT !.pc = "done", !.result = result, !.gets = @ + 1,
                     !.status2 = status, !.body2 = body]

(* lines 1458-1465 without the cache update of lines 1462-1463 *)
FetchRetryResponse_nostore(status, body) ==
    /\ fd.pc = "retry"
    /\ UNCHANGED cache
    /\ IF status \in {HTTP_OK, HTTP_MULTI_STATUS}
       THEN IF JsonDecodes(body)
            THEN FinishRetry(Return(Json(body)), status, body)
            ELSE FinishRetry(FetchExcept("requests.JSONDecodeError", fd.allow_empty), status, body)
       ELSE IF StatusRejected(status, fd.allow_http_error, fd.allowed_errors)
            THEN FinishRetry(FetchExcept("RetrievalError", fd.allow_empty), status, body)
            ELSE FinishRetry(Return(fd.data), status, body)
    /\ UNCHANGED <<now, max_age, token, outsideFetch>>

(* lines 1458-1465: the GET repeated after the login answers with a status *)
FetchRetryResponse(status, body) ==
    /\ fd.pc = "retry"
    /\ IF status \in {HTTP_OK, HTTP_MULTI_STATUS}
       THEN IF JsonDecodes(body)
            THEN /\ cache' = [cache EXCEPT ![fd.url] = <<Json(body), DatetimeStr(now)>>]
                 /\ FinishRetry(Return(Json(body)), status, body)
            ELSE /\ FinishRetry(FetchExcept("requests.JSONDecodeError", fd.allow_empty), status, body)
                 /\ UNCHANGED cache
       ELSE /\ UNCHANGED cache
            /\ IF StatusRejected(status, fd.allow_http_error, fd.allowed_errors)
               THEN FinishRetry(FetchExcept("RetrievalError", fd.allow_empty), status, body)
               ELSE FinishRetry(Return(fd.data), status, body)
    /\ UNCHANGED <<now, max_age, token, outsideFetch>>

(* line 1458 raising instead of answering *)
FetchRetryFails(exc) ==
    /\ fd.pc = "retry"
    /\ FinishRetry(FetchExcept(exc, fd.allow_empty), Raised, None)
    /\ UNCHANGED <<cache, now, max_age, token, outsideFetch>>

(* line 1482, or the exception leaving the function *)
FetchReturn ==
    /\ fd.pc = "done"
    /\ fd' = FdIdle
    /\ UNCHANGED <<cache, now, max_age, token, outsideFetch>>

(* the clock read by datetime.utcnow() advances *)
Tick ==
    /\ now < MaxTime
    /\ now' = now + 1
    /\ UNCHANGED <<cache, max_age, token, fd, outsideFetch>>

----------------------------------------------------------------------------
(* Connector._background_loop and the threads sharing its state *)

(* ConnectionState *)
DISCONNECTED == "DISCONNECTED"
CONNECTING == "CONNECTING"
CONNECTED == "CONNECTED"
ERROR == "ERROR"

(* Values of the interval attribute (seconds); its minimum is 180 *)
Intervals == {180, 300}

(* line 192: the interval used when the attribute holds no value *)
DefaultInterval == 300

(* line 211: the cool-down after a rate-limit error *)
RateLimitWait == 900

(* line 185: the pause of the connect loop after a refused connection *)
ConnectRetryWait == 10

(* What fetch_all / update_vehicles can raise *)
IterationErrors ==
    {"TooManyRequestsError", "RetrievalError", "APIError", "APICompatibilityError",
     "TemporaryAuthenticationError", "AuthenticationError", "KeyError"}

(* carconnectivity.errors: the base classes of each error class *)
IsInstance(err, cls) ==
    \/ cls = err
    \/ cls = "Exception"
    \/ (err = "TooManyRequestsError" /\ cls = "RetrievalError")
    \/ (err = "TemporaryAuthenticationError" /\ cls = "AuthenticationError")

(* the except clauses with RetrievalError tested before TooManyRequestsError *)
ExceptClauses_retrievalFirst ==
    <<"RetrievalError", "TooManyRequestsError", "APIError", "APICompatibilityError",
      "TemporaryAuthenticationError", "Exception">>

(* lines 207-232: the except clauses of the loop, in order *)
ExceptClauses ==
    <<"TooManyRequestsError", "RetrievalError", "APIError", "APICompatibilityError",
      "TemporaryAuthenticationError", "Exception">>

(* the clause that catches err: the first one err is an instance of *)
CatchingClause(err) ==
    LET i == CHOOSE k \in 1..Len(ExceptClauses) :
                /\ IsInstance(err, ExceptClauses[k])
                /\ \A j \in 1..(k - 1) : ~IsInstance(err, ExceptClauses[j])
    IN ExceptClauses[i]

(* lines 211, 216, 221, 226, 231: the wait of the clause *)
ClauseWait(clause, interval) ==
    IF clause = "TooManyRequestsError" THEN RateLimitWait ELSE interval

(* lines 195-199: what an iteration runs *)
IterationOp(fetch) == IF fetch THEN "fetch_all" ELSE "update_vehicles"

(* line 197 executed before fetch_all rather than after it returned *)
FetchFlagAfter_early(fetch, outcome) == FALSE

(* lines 195-197: fetch is reset once fetch_all has returned *)
FetchFlagAfter(fetch, outcome) ==
    IF fetch /\ outcome = "ok" THEN FALSE ELSE fetch

BgUnstarted == [pc |-> "unstarted"]

(* line 188 *)
BgClear ==
    /\ bg.pc = "clear"
    /\ stop_event' = FALSE
    /\ bg' = [bg EXCEPT !.pc = "init"]
    /\ UNCHANGED <<connection_state, rest_connected, mqtt_connected, healthy,
                   interval_value, mq, cn, main, outsideLoop>>

(* lines 189-190 *)
BgInit ==
    /\ bg.pc = "init"
    /\ connection_state' = CONNECTING
    /\ bg' = [bg EXCEPT !.pc = "while", !.fetch = TRUE]
    /\ UNCHANGED <<rest_connected, mqtt_connected, healthy, stop_event,
                   interval_value, mq, cn, main, outsideLoop>>

(* lines 191-192: the loop condition; an iteration starts with interval = 300 *)
BgWhile ==
    /\ bg.pc = "while"
    /\ IF stop_event
       THEN bg' = [bg EXCEPT !.pc = "x_state", !.err = None, !.wait = 0]
       ELSE /\ bg.iter < MaxIter
            /\ bg' = [bg EXCEPT !.pc = "try", !.interval = DefaultInterval]
    /\ UNCHANGED <<connection_state, rest_connected, mqtt_connected, healthy,
                   stop_event, interval_value, mq, cn, main, outsideLoop>>

(* Status codes the login page answers with when no form is served *)
HTTP_FORBIDDEN == 403

LoginPageStatuses == {HTTP_SERVER_ERROR, HTTP_FORBIDDEN}

(* doWebAuth with the error of a 500 answer read as a failed authentication *)
LoginPageError_authentication(status) ==
    IF status = HTTP_SERVER_ERROR THEN "AuthenticationError" ELSE "APICompatibilityError"

(* my_skoda_session2.py lines 80-93: doWebAuth raises RetrievalError for a 500
   answer to the login page and APICompatibilityError for any other status
   that is neither 200 nor a redirect *)
LoginPageError(status) ==
    IF status = HTTP_SERVER_ERROR THEN "RetrievalError" ELSE "APICompatibilityError"

(* connector.py lines 1455-1457 and 1469-1482: what _fetch_data raises when the
   login it starts after a 401 raises exc *)
LoginErrorFromFetch(exc) == FetchExcept(exc, FALSE).exc

(* lines 192-206: one iteration; outcome is "ok" or the error raised; cause is
   the status of the login page when a login of the iteration failed on it *)
BgIterateBecause(outcome, cause) ==
    /\ bg.pc = "try"
    /\ LET op == IterationOp(bg.fetch)
           interval == IF interval_value # NoneNum THEN interval_value ELSE DefaultInterval
       IN bg' = [bg EXCEPT
                   !.pc = IF outcome = "ok" THEN "s_rest"
                          ELSE IF CatchingClause(outcome) = "Exception" THEN "f_state"
                          ELSE "h_state",
                   !.fetch = FetchFlagAfter(bg.fetch, outcome),
                   !.interval = interval,
                   !.err = IF outcome = "ok" THEN None ELSE outcome,
                   !.cause = cause,
                   !.op = op,
                   !.iter = IF @ < MaxIter THEN @ + 1 ELSE @,
                   !.wait = 0,
                   !.prior_ok = bg.any_ok,
                   !.any_ok = bg.any_ok \/ outcome = "ok"]
    /\ UNCHANGED <<connection_state, rest_connected, mqtt_connected, healthy,
                   stop_event, interval_value, mq, cn, main, outsideLoop>>

(* lines 192-206: one iteration; outcome is "ok" or the error raised *)
BgIterate(outcome) == BgIterateBecause(outcome, NoneNum)

(* lines 192-206 with _fetch_data lines 1455-1457: an iteration in which a GET
   is answered 401 and the login page of the login that follows is answered
   with an error status *)
BgIterateLoginPage(status) ==
    BgIterateBecause(LoginErrorFromFetch(LoginPageError(status)), status)

(* lines 209, 214, 219, 224, 229: a classified error sets ERROR *)
BgHandleState ==
    /\ bg.pc = "h_state"
    /\ connection_state' = ERROR
    /\ bg' = [bg EXCEPT !.pc = "h_rest"]
    /\ UNCHANGED <<rest_connected, mqtt_connected, healthy, stop_event,
                   interval_value, mq, cn, main, outsideLoop>>

(* lines 210-211, 215-216, 220-221, 225-226, 230-231 *)
BgHandleRest ==
    /\ bg.pc = "h_rest"
    /\ rest_connected' = FALSE
    /\ bg' = [bg EXCEPT !.pc = "wait",
                        !.wait = ClauseWait(CatchingClause(bg.err), bg.interval)]
    /\ UNCHANGED <<connection_state, mqtt_connected, healthy, stop_event,
                   interval_value, mq, cn, main, outsideLoop>>

(* line 234: an unclassified exception sets ERROR *)
BgFatalState ==
    /\ bg.pc = "f_state"
    /\ connection_state' = ERROR
    /\ bg' = [bg EXCEPT !.pc = "f_rest"]
    /\ UNCHANGED <<rest_connected, mqtt_connected, healthy, stop_event,
                   interval_value, mq, cn, main, outsideLoop>>

(* line 235 *)
BgFatalRest ==
    /\ bg.pc = "f_rest"
    /\ rest_connected' = FALSE
    /\ bg' = [bg EXCEPT !.pc = "f_health"]
    /\ UNCHANGED <<connection_state, mqtt_connected, healthy, stop_event,
                   interval_value, mq, cn, main, outsideLoop>>

(* lines 236-237 without the raise: the loop goes on to its wait *)
BgFatalRaise_swallowed ==
    /\ bg.pc = "f_health"
    /\ healthy' = FALSE
    /\ bg' = [bg EXCEPT !.pc = "wait", !.wait = bg.interval]
    /\ UNCHANGED <<connection_state, rest_connected, mqtt_connected, stop_event,
                   interval_value, mq, cn, main, outsideLoop>>

(* lines 236-237: unhealthy, and the exception leaves the thread function *)
BgFatalRaise ==
    /\ bg.pc = "f_health"
    /\ healthy' = FALSE
    /\ bg' = [bg EXCEPT !.pc = "crashed"]
    /\ UNCHANGED <<connection_state, rest_connected, mqtt_connected, stop_event,
                   interval_value, mq, cn, main, outsideLoop>>

(* line 239 *)
BgSuccessRest ==
    /\ bg.pc = "s_rest"
    /\ rest_connected' = TRUE
    /\ bg' = [bg EXCEPT !.pc = "s_check"]
    /\ UNCHANGED <<connection_state, mqtt_connected, healthy, stop_event,
                   interval_value, mq, cn, main, outsideLoop>>

(* line 240: mqtt_connected is read *)
BgSuccessCheck ==
    /\ bg.pc = "s_check"
    /\ bg' = [bg EXCEPT !.pc = "s_state", !.seen_mqtt = mqtt_connected]
    /\ UNCHANGED <<connection_state, rest_connected, mqtt_connected, healthy,
                   stop_event, interval_value, mq, cn, main, outsideLoop>>

(* lines 241-242 without the test of line 240 *)
BgSuccessState_unconditional ==
    /\ bg.pc = "s_state"
    /\ connection_state' = CONNECTED
    /\ bg' = [bg EXCEPT !.pc = "wait", !.wait = bg.interval, !.seen_mqtt = FALSE]
    /\ UNCHANGED <<rest_connected, mqtt_connected, healthy, stop_event,
                   interval_value, mq, cn, main, outsideLoop>>

(* lines 241-242 *)
BgSuccessState ==
    /\ bg.pc = "s_state"
    /\ connection_state' = IF bg.seen_mqtt THEN CONNECTED ELSE connection_state
    /\ bg' = [bg EXCEPT !.pc = "wait", !.wait = bg.interval, !.seen_mqtt = FALSE]
    /\ UNCHANGED <<rest_connected, mqtt_connected, healthy, stop_event,
                   interval_value, mq, cn, main, outsideLoop>>

(* _stop_event.wait(t) returns: the time is over or stop was set *)
BgWake ==
    /\ bg.pc = "wait"
    /\ bg' = [bg EXCEPT !.pc = "while"]
    /\ UNCHANGED <<connection_state, rest_connected, mqtt_connected, healthy,
                   stop_event, interval_value, mq, cn, main, outsideLoop>>

(* line 244 *)
BgExitState ==
    /\ bg.pc = "x_state"
    /\ connection_state' = DISCONNECTED
    /\ bg' = [bg EXCEPT !.pc = "x_rest"]
    /\ UNCHANGED <<rest_connected, mqtt_connected, healthy, stop_event,
                   interval_value, mq, cn, main, outsideLoop>>

(* line 245, after which the thread function returns *)
BgExitRest ==
    /\ bg.pc = "x_rest"
    /\ rest_connected' = FALSE
    /\ bg' = [bg EXCEPT !.pc = "stopped"]
    /\ UNCHANGED <<connection_state, mqtt_connected, healthy, stop_event,
                   interval_value, mq, cn, main, outsideLoop>>

----------------------------------------------------------------------------
(* SkodaMQTTClient: the callbacks run by the MQTT network thread.
   mq.link is the state of the broker connection:
   "down", "pending" (CONNECT sent), "up", "rejected" (CONNACK with an error),
   "closing" (disconnect() called), "closed" *)

(* what a callback leaves alone *)
MqFrame == <<rest_connected, healthy, stop_event, interval_value, bg, cn, main, outsideLoop>>

(* _on_connect_callback, lines 315-317: CONNACK arrives; on success
   rest_connected is read *)
OnConnectBegin(reason_code) ==
    /\ mq.pc = "idle"
    /\ mq.link = "pending"
    /\ IF reason_code = 0
       THEN mq' = [mq EXCEPT !.pc = "oc_state", !.link = "up", !.seen_rest = rest_connected]
       ELSE mq' = [mq EXCEPT !.link = "rejected"]
    /\ UNCHANGED <<connection_state, mqtt_connected, MqFrame>>

(* _on_connect_callback, line 318 *)
OnConnectState ==
    /\ mq.pc = "oc_state"
    /\ connection_state' = IF mq.seen_rest THEN CONNECTED ELSE connection_state
    /\ mq' = [mq EXCEPT !.pc = "oc_mqtt"]
    /\ UNCHANGED <<mqtt_connected, MqFrame>>

(* _on_connect_callback, lines 319-324 *)
OnConnectMqtt ==
    /\ mq.pc = "oc_mqtt"
    /\ mqtt_connected' = TRUE
    /\ mq' = [mq EXCEPT !.pc = "idle", !.seen_rest = FALSE]
    /\ UNCHANGED <<connection_state, MqFrame>>

(* _on_disconnect_callback, line 392: the connection ended *)
OnDisconnectState ==
    /\ mq.pc = "idle"
    /\ mq.link \in {"up", "rejected", "closing"}
    /\ connection_state' = DISCONNECTED
    /\ mq' = [mq EXCEPT !.pc = "od_mqtt"]
    /\ UNCHANGED <<mqtt_connected, MqFrame>>

(* _on_disconnect_callback, lines 393-396 *)
OnDisconnectMqtt ==
    /\ mq.pc = "od_mqtt"
    /\ mqtt_connected' = FALSE
    /\ mq' = [mq EXCEPT !.pc = "idle",
                        !.link = IF mq.link = "closing" THEN "closed" ELSE "down"]
    /\ UNCHANGED <<connection_state, MqFrame>>

(* line 57, reconnect_on_failure: the network thread reconnects by itself
   after a connection it did not close *)
MqReconnect ==
    /\ mq.pc = "idle"
    /\ mq.link = "down"
    /\ mq.was_up
    /\ mq' = [mq EXCEPT !.link = "pending"]
    /\ UNCHANGED <<connection_state, mqtt_connected, MqFrame>>

----------------------------------------------------------------------------
(* Connector._background_connect_loop *)

CnFrame == <<rest_connected, mqtt_connected, healthy, stop_event, interval_value,
             bg, main, outsideLoop>>

(* line 179: the loop condition *)
CnWhile ==
    /\ cn.pc = "while"
    /\ cn' = [cn EXCEPT !.pc = IF stop_event THEN "done" ELSE "connect"]
    /\ UNCHANGED <<connection_state, mq, CnFrame>>

(* line 181 -> mqtt_client.connect, line 81 *)
CnConnectState ==
    /\ cn.pc = "connect"
    /\ connection_state' = CONNECTING
    /\ cn' = [cn EXCEPT !.pc = "socket"]
    /\ UNCHANGED <<mq, CnFrame>>

(* line 82 and lines 182-185 without the break of line 182 *)
CnConnectResult_withoutBreak(outcome) ==
    /\ cn.pc = "socket"
    /\ cn.attempts < MaxAttempts
    /\ IF outcome = "ok"
       THEN /\ cn' = [cn EXCEPT !.pc = "while", !.attempts = @ + 1]
            /\ mq' = [mq EXCEPT !.link = "pending", !.was_up = TRUE]
       ELSE /\ cn' = [cn EXCEPT !.pc = IF outcome = "ConnectionRefusedError"
                                       THEN "wait" ELSE "crashed",
                                !.wait = IF outcome = "ConnectionRefusedError"
                                         THEN ConnectRetryWait ELSE @,
                                !.attempts = @ + 1]
            /\ UNCHANGED mq
    /\ UNCHANGED <<connection_state, CnFrame>>

(* line 82 and lines 182-185: the connection is made (break), refused
   (ConnectionRefusedError: wait and retry) or fails otherwise (uncaught) *)
CnConnectResult(outcome) ==
    /\ cn.pc = "socket"
    /\ cn.attempts < MaxAttempts
    /\ IF outcome = "ok"
       THEN /\ cn' = [cn EXCEPT !.pc = "done", !.attempts = @ + 1]
            /\ mq' = [mq EXCEPT !.link = "pending", !.was_up = TRUE]
       ELSE /\ cn' = [cn EXCEPT !.pc = IF outcome = "ConnectionRefusedError"
                                       THEN "wait" ELSE "crashed",
                                !.wait = IF outcome = "ConnectionRefusedError"
                                         THEN ConnectRetryWait ELSE @,
                                !.attempts = @ + 1]
            /\ UNCHANGED mq
    /\ UNCHANGED <<connection_state, CnFrame>>

(* line 185: _stop_event.wait(10) returns *)
CnWake ==
    /\ cn.pc = "wait"
    /\ cn' = [cn EXCEPT !.pc = "while"]
    /\ UNCHANGED <<connection_state, mq, CnFrame>>

ConnectOutcomes == {"ok", "ConnectionRefusedError", "OSError"}

----------------------------------------------------------------------------
(* The host thread: Connector.startup and Connector.shutdown *)

(* lines 165-169: the stop flag is cleared, the background thread started *)
StartupBackground ==
    /\ main = "constructed"
    /\ stop_event' = FALSE
    /\ bg' = [pc |-> "clear", fetch |-> TRUE, interval |-> DefaultInterval,
              err |-> None, cause |-> NoneNum, op |-> None, iter |-> 0, wait |-> 0,
              prior_ok |-> FALSE, any_ok |-> FALSE, seen_mqtt |-> FALSE]
    /\ main' = "start_connect"
    /\ UNCHANGED <<connection_state, rest_connected, mqtt_connected, healthy,
                   interval_value, mq, cn, outsideLoop>>

(* lines 171-173: the connect thread is started *)
StartupConnect ==
    /\ main = "start_connect"
    /\ cn' = [pc |-> "while", attempts |-> 0, wait |-> 0]
    /\ main' = "start_mqtt"
    /\ UNCHANGED <<connection_state, rest_connected, mqtt_connected, healthy,
                   stop_event, interval_value, bg, mq, outsideLoop>>

(* line 175: loop_start() starts the MQTT network thread *)
StartupMqtt ==
    /\ main = "start_mqtt"
    /\ mq' = [mq EXCEPT !.pc = "idle"]
    /\ main' = "start_healthy"
    /\ UNCHANGED <<connection_state, rest_connected, mqtt_connected, healthy,
                   stop_event, interval_value, bg, cn, outsideLoop>>

(* line 176 *)
StartupHealthy ==
    /\ main = "start_healthy"
    /\ healthy' = TRUE
    /\ main' = "running"
    /\ UNCHANGED <<connection_state, rest_connected, mqtt_connected,
                   stop_event, interval_value, bg, mq, cn, outsideLoop>>

(* the host changes the interval attribute while the connector runs *)
SetInterval(v) ==
    /\ main = "running"
    /\ v # interval_value
    /\ interval_value' = v
    /\ UNCHANGED <<connection_state, rest_connected, mqtt_connected, healthy,
                   stop_event, bg, mq, cn, main, outsideLoop>>

(* line 267: mqtt_client.disconnect() *)
ShutdownDisconnect ==
    /\ main = "running"
    /\ mq' = [mq EXCEPT !.link = IF mq.link \in {"up", "pending", "rejected"}
                                 THEN "closing" ELSE "closed"]
    /\ main' = "stop_mqtt"
    /\ UNCHANGED <<connection_state, rest_connected, mqtt_connected, healthy,
                   stop_event, interval_value, bg, cn, outsideLoop>>

(* line 269: loop_stop() joins the MQTT network thread *)
ShutdownLoopStop ==
    /\ main = "stop_mqtt"
    /\ mq.pc = "idle"
    /\ mq' = [mq EXCEPT !.pc = "stopped"]
    /\ main' = "signal_stop"
    /\ UNCHANGED <<connection_state, rest_connected, mqtt_connected, healthy,
                   stop_event, interval_value, bg, cn, outsideLoop>>

(* lines 271-275 followed by the joins, session.close() of line 276 left out *)
ShutdownSignalStop_withoutClose ==
    /\ main = "signal_stop"
    /\ stop_event' = TRUE
    /\ main' = "join_background"
    /\ UNCHANGED <<connection_state, rest_connected, mqtt_connected, healthy,
                   interval_value, bg, mq, cn, outsideLoop>>

(* lines 271-275: the vehicles are removed, stop is signalled *)
ShutdownSignalStop ==
    /\ main = "signal_stop"
    /\ stop_event' = TRUE
    /\ main' = "close_session"
    /\ UNCHANGED <<connection_state, rest_connected, mqtt_connected, healthy,
                   interval_value, bg, mq, cn, outsideLoop>>

(* line 276: session.close() *)
ShutdownSessionClose ==
    /\ main = "close_session"
    /\ session_closed' = TRUE
    /\ main' = "join_background"
    /\ UNCHANGED <<connection_state, rest_connected, mqtt_connected, healthy, stop_event,
                   interval_value, bg, mq, cn, outsideShutdown, persisted>>

(* lines 277-278: join of the background thread *)
ShutdownJoinBackground ==
    /\ main = "join_background"
    /\ bg.pc \in {"stopped", "crashed"}
    /\ main' = "join_connect"
    /\ UNCHANGED <<connection_state, rest_connected, mqtt_connected, healthy,
                   stop_event, interval_value, bg, mq, cn, outsideLoop>>

(* lines 279-280: join of the connect thread *)
ShutdownJoinConnect ==
    /\ main = "join_connect"
    /\ cn.pc \in {"done", "crashed"}
    /\ main' = "persist"
    /\ UNCHANGED <<connection_state, rest_connected, mqtt_connected, healthy,
                   stop_event, interval_value, bg, mq, cn, outsideLoop>>

(* lines 281-282: persist(), then the shutdown of the base connector *)
ShutdownPersist ==
    /\ main = "persist"
    /\ persisted' = TRUE
    /\ main' = "down"
    /\ UNCHANGED <<connection_state, rest_connected, mqtt_connected, healthy, stop_event,
                   interval_value, bg, mq, cn, outsideShutdown, session_closed>>

----------------------------------------------------------------------------
(* MySkodaSession.refresh_tokens *)

(* Values of the token_url argument: none, a plain-HTTP and an HTTPS URL *)
TokenUrls == {"", "http://", "https://"}

(* a refresh token handed to refresh_tokens by its caller *)
PassedRefreshToken == 0

(* oauthlib.oauth2.is_secure_transport *)
IsSecureTransport(token_url) == token_url = "https://"

(* session.refresh_token: the refresh token of the bundle held *)
SessionRefreshToken(t) == t.refresh_token

(* What the refresh POST can raise instead of answering: the transport error
   of requests, and the built-in ConnectionError named by line 222 *)
PostErrors == {"requests.ConnectionError", "ConnectionError"}

(* Status codes of the refresh endpoint *)
RefreshStatuses == {HTTP_OK, HTTP_UNAUTHORIZED, HTTP_SERVER_ERROR}

(* Bodies of a 200 answer: a bundle with or without a new refresh token, or
   no valid JSON *)
RefreshBodies == {"tokens", "access-only", BadBody}

(* lines 131-153: the bundle parsed from a 200 answer *)
ParsedToken(t, body) ==
    [access_token |-> TokenGen(t) + 1,
     refresh_token |-> IF body = "tokens" THEN TokenGen(t) + 1 ELSE NoneNum]

(* lines 186-196 without the check of lines 194-196 for a missing refresh token *)
RefreshCall_postWithoutToken(token_url, refresh_token_arg) ==
    /\ rt.pc = "idle"
    /\ ft.pc = "idle"
    /\ LET refresh_token == IF refresh_token_arg # NoneNum THEN refresh_token_arg
                            ELSE SessionRefreshToken(token)
           frame == [pc |-> "post", token_url |-> token_url, refresh_token |-> refresh_token,
                     token0 |-> token, posts |-> 0, logins |-> 0, status |-> NoneNum,
                     login |-> None, result |-> NoResult]
       IN rt' = IF token_url = ""
                THEN [frame EXCEPT !.pc = "done", !.result = Raise("ValueError")]
                ELSE IF ~IsSecureTransport(token_url)
                THEN [frame EXCEPT !.pc = "done", !.result = Raise("InsecureTransportError")]
                ELSE frame
    /\ UNCHANGED <<token, outsideRefresh>>

(* lines 186-196: argument checks, choice of the refresh token *)
RefreshCall(token_url, refresh_token_arg) ==
    /\ rt.pc = "idle"
    /\ ft.pc = "idle"
    /\ LET refresh_token == IF refresh_token_arg # NoneNum THEN refresh_token_arg
                            ELSE SessionRefreshToken(token)
           frame == [pc |-> "post", token_url |-> token_url, refresh_token |-> refresh_token,
                     token0 |-> token, posts |-> 0, logins |-> 0, status |-> NoneNum,
                     login |-> None, result |-> NoResult]
       IN rt' = IF token_url = ""
                THEN [frame EXCEPT !.pc = "done", !.result = Raise("ValueError")]
                ELSE IF ~IsSecureTransport(token_url)
                THEN [frame EXCEPT !.pc = "done", !.result = Raise("InsecureTransportError")]
                ELSE IF refresh_token = NoneNum
                THEN [frame EXCEPT !.pc = "login"]
                ELSE frame
    /\ UNCHANGED <<token, outsideRefresh>>

(* lines 216-219 replaced by the raise of MySkodaSession2.refreshTokens *)
RefreshPostResponse_raiseOn401(status, body) ==
    /\ rt.pc = "post"
    /\ status = HTTP_UNAUTHORIZED
    /\ rt' = [rt EXCEPT !.pc = "done", !.posts = @ + 1, !.status = status,
                        !.result = Raise("AuthenticationError")]
    /\ UNCHANGED <<token, outsideRefresh>>

(* lines 210-221: the refresh POST answers with a status *)
RefreshPostResponse(status, body) ==
    /\ rt.pc = "post"
    /\ IF status = HTTP_OK
       THEN IF JsonDecodes(body)
            THEN /\ TokenGen(token) < MaxLogins
                 /\ token' = ParsedToken(token, body)
                 /\ rt' = [rt EXCEPT !.pc = "done", !.posts = @ + 1, !.status = status,
                                     !.result = Return(token')]
            ELSE /\ UNCHANGED token
                 /\ rt' = [rt EXCEPT !.pc = "done", !.posts = @ + 1, !.status = status,
                                     !.result = Raise("TemporaryAuthenticationError")]
       ELSE /\ UNCHANGED token
            /\ IF status = HTTP_UNAUTHORIZED
               THEN rt' = [rt EXCEPT !.pc = "login", !.posts = @ + 1, !.status = status]
               ELSE rt' = [rt EXCEPT !.pc = "done", !.posts = @ + 1, !.status = status,
                                     !.result = Raise("TemporaryAuthenticationError")]
    /\ UNCHANGED outsideRefresh

(* lines 210 and 222-224: the POST raises; only the built-in ConnectionError
   is caught *)
RefreshPostFails(exc) ==
    /\ rt.pc = "post"
    /\ IF exc = "ConnectionError"
       THEN rt' = [rt EXCEPT !.pc = "login", !.posts = @ + 1, !.status = Raised]
       ELSE rt' = [rt EXCEPT !.pc = "done", !.posts = @ + 1, !.status = Raised,
                             !.result = Raise(exc)]
    /\ UNCHANGED <<token, outsideRefresh>>

(* lines 195-196, 218-219, 223-224: login() and return self.token *)
RefreshLogin(outcome) ==
    /\ rt.pc = "login"
    /\ IF outcome = "ok"
       THEN /\ CanLogin
            /\ token' = FreshToken(token)
            /\ rt' = [rt EXCEPT !.pc = "done", !.logins = @ + 1, !.login = outcome,
                                !.result = Return(token')]
       ELSE /\ UNCHANGED token
            /\ rt' = [rt EXCEPT !.pc = "done", !.logins = @ + 1, !.login = outcome,
                                !.result = Raise(outcome)]
    /\ UNCHANGED outsideRefresh

(* the caller receives the result *)
RefreshReturn ==
    /\ rt.pc = "done"
    /\ rt' = [pc |-> "idle"]
    /\ UNCHANGED <<token, outsideRefresh>>

----------------------------------------------------------------------------
(* MySkodaSession.fetch_tokens *)

(* What the redirect handed to fetch_tokens carries: the authorization code
   and the id token, the code alone, or neither *)
AuthorizationResponses == {"code+id_token", "code", "nothing"}

(* line 102: the bundle parse_from_fragment leaves in session.token; it holds
   what the redirect carried and neither an access nor a refresh token *)
FragmentToken(authorization_response) == NoToken

(* line 104: the bundle holds both 'code' and 'id_token' *)
HasCodeAndIdToken(authorization_response) == authorization_response = "code+id_token"

(* lines 79-104 and 125: the redirect is parsed; without code and id token
   the call returns None *)
FetchTokensCall(token_url, authorization_response) ==
    /\ ft.pc = "idle"
    /\ rt.pc = "idle"
    /\ LET frame == [pc |-> "post", token_url |-> token_url,
                     authorization_response |-> authorization_response,
                     token0 |-> token, posts |-> 0, status |-> NoneNum,
                     result |-> NoResult]
       IN /\ token' = FragmentToken(authorization_response)
          /\ ft' = IF HasCodeAndIdToken(authorization_response) THEN frame
                    ELSE [frame EXCEPT !.pc = "done", !.result = Return(None)]
    /\ UNCHANGED outsideTokens

(* lines 118-124: the exchange POST answers with a status *)
FetchTokensPostResponse(status, body) ==
    /\ ft.pc = "post"
    /\ IF status = HTTP_OK /\ JsonDecodes(body)
       THEN /\ TokenGen(ft.token0) < MaxLogins
            /\ token' = ParsedToken(ft.token0, body)
            /\ ft' = [ft EXCEPT !.pc = "done", !.posts = @ + 1, !.status = status,
                                !.result = Return(token')]
       ELSE /\ UNCHANGED token
            /\ ft' = [ft EXCEPT !.pc = "done", !.posts = @ + 1, !.status = status,
                                !.result = Raise("TemporaryAuthenticationError")]
    /\ UNCHANGED outsideTokens

(* line 118 raising instead of answering: nothing in fetch_tokens catches it *)
FetchTokensPostFails(exc) ==
    /\ ft.pc = "post"
    /\ ft' = [ft EXCEPT !.pc = "done", !.posts = @ + 1, !.status = Raised,
                        !.result = Raise(exc)]
    /\ UNCHANGED <<token, outsideTokens>>

(* the caller receives the result *)
FetchTokensReturn ==
    /\ ft.pc = "done"
    /\ ft' = [pc |-> "idle"]
    /\ UNCHANGED <<token, outsideTokens>>

----------------------------------------------------------------------------
(* MySkodaSession.parse_from_body (and MySkodaSession2.parseFromBody) *)

(* the key names of the manufacturer and the names they are given *)
ManufacturerKeys == {"accessToken", "idToken", "refreshToken"}

CanonicalKeys == {"access_token", "id_token", "refresh_token"}

CanonicalKey(k) ==
    CASE k = "accessToken" -> "access_token"
      [] k = "idToken" -> "id_token"
      [] k = "refreshToken" -> "refresh_token"

(* the keys a token answer may hold, and their values *)
TokenKeys == ManufacturerKeys \cup CanonicalKeys \cup {"expires_in"}

TokenValues == {"v1", "v2"}

(* the JSON objects a token answer may hold *)
TokenObjects == UNION {[D -> TokenValues] : D \in SUBSET TokenKeys}

(* json.dumps of an object, json.loads of a text, and a text that is no JSON *)
JsonDumps(object) == <<"json", object>>

JsonLoads(text) == text[2]

IsJson(text) == text[1] = "json"

NoJsonText == <<"text", BadBody>>

TokenResponses == {JsonDumps(object) : object \in TokenObjects} \cup {NoJsonText}

(* dict.pop(k) and dict[k] = v *)
DictPop(d, k) == [x \in DOMAIN d \ {k} |-> d[x]]

DictSet(d, k, v) == [x \in DOMAIN d \cup {k} |-> IF x = k THEN v ELSE d[x]]

(* lines 138-140, 142-144, 146-148 with the old key left in place *)
FixKey_keepOld(d, k) ==
    IF k \in DOMAIN d THEN DictSet(d, CanonicalKey(k), d[k]) ELSE d

(* lines 138-140, 142-144, 146-148: token[new] = token.pop(old) *)
FixKey(d, k) ==
    IF k \in DOMAIN d THEN DictSet(DictPop(d, k), CanonicalKey(k), d[k]) ELSE d

(* lines 136-149: the three keys are fixed in turn *)
FixTokenKeys(d) == FixKey(FixKey(FixKey(d, "accessToken"), "idToken"), "refreshToken")

(* lines 127-153: the answer is decoded, its keys fixed, and the result is
   encoded again and handed to the parse_from_body of the base class *)
ParseFromBody(token_response) ==
    /\ pb.pc = "idle"
    /\ pb' = IF IsJson(token_response)
             THEN LET token_dict == JsonLoads(token_response)
                  IN [pc |-> "done", token_response |-> token_response,
                      found_tokens |-> DOMAIN token_dict \cap ManufacturerKeys,
                      fixed_token_response |-> JsonDumps(FixTokenKeys(token_dict)),
                      result |-> NoResult]
             ELSE [pc |-> "done", token_response |-> token_response,
                   found_tokens |-> {},
                   fixed_token_response |-> NoJsonText,
                   result |-> Raise("TemporaryAuthenticationError")]
    /\ UNCHANGED outsideParse

(* line 153, or the error of line 135 leaving the function *)
ParseReturn ==
    /\ pb.pc = "done"
    /\ pb' = [pc |-> "idle"]
    /\ UNCHANGED outsideParse

----------------------------------------------------------------------------
(* SkodaMQTTClient._on_message_callback: messages, vehicles, re-fetches *)

Vins == {"VIN1", "VIN2"}

(* garage.get_vehicle(vin) of a VIN the garage does not hold *)
NoVehicle == [kind |-> "None"]

(* Charging.ChargingState values the model uses, and None *)
ChargingStates == {"OFF", "READY_FOR_CHARGING", "CHARGING", "UNKNOWN"}

(* a vehicle of the garage: its class, whether get_electric_drive() finds a
   drive, and the attributes the callback writes *)
Vehicle(kind, electric_drive, capabilities, charging_state) ==
    [kind |-> kind, electric_drive |-> electric_drive, capabilities |-> capabilities,
     charging_state |-> charging_state, charging_type |-> None, level |-> NoneNum,
     climatization_state |-> "HEATING"]

(* isinstance(vehicle, SkodaVehicle) / isinstance(vehicle, SkodaElectricVehicle) *)
IsSkodaVehicle(v) ==
    v.kind \in {"SkodaVehicle", "SkodaElectricVehicle", "SkodaCombustionVehicle",
                "SkodaHybridVehicle"}

IsSkodaElectricVehicle(v) == v.kind = "SkodaElectricVehicle"

(* charging.py lines 51-79: SkodaChargingState values *)
SkodaChargingStateValues ==
    {"off", "connectCable", "readyForCharging", "notReadyForCharging", "conserving",
     "chargePurposeReachedAndNotConservationCharging", "chargePurposeReachedAndConservation",
     "charging", "error", "unsupported", "discharging", "unknown charging state"}

(* charging.py lines 124-137: mapping_skoda_charging_state *)
MappingSkodaChargingState(state) ==
    CASE state \in {"off", "connectCable", "notReadyForCharging"} -> "OFF"
      [] state \in {"readyForCharging", "chargePurposeReachedAndNotConservationCharging"}
            -> "READY_FOR_CHARGING"
      [] state \in {"conserving", "chargePurposeReachedAndConservation"} -> "CONSERVATION"
      [] state = "charging" -> "CHARGING"
      [] state = "error" -> "ERROR"
      [] state = "unsupported" -> "UNSUPPORTED"
      [] state = "discharging" -> "DISCHARGING"
      [] OTHER -> "UNKNOWN"

(* lines 490-496: the charging state derived from data['data']['state'] *)
DerivedChargingState(state) ==
    IF state \in SkodaChargingStateValues THEN MappingSkodaChargingState(state) ELSE "UNKNOWN"

(* lines 627-634 and 648-655: the operation requests the callback knows *)
AirConditioningRequests ==
    {"air-conditioning/set-air-conditioning-at-unlock",
     "air-conditioning/set-air-conditioning-seats-heating",
     "air-conditioning/set-air-conditioning-timers",
     "air-conditioning/set-air-conditioning-without-external-power",
     "air-conditioning/set-target-temperature",
     "air-conditioning/start-stop-air-conditioning",
     "air-conditioning/start-stop-window-heating",
     "air-conditioning/windows-heating"}

ChargingRequests ==
    {"charging/start-stop-charging", "charging/update-battery-support",
     "charging/update-auto-unlock-plug", "charging/update-care-mode",
     "charging/update-charge-limit", "charging/update-charge-mode",
     "charging/update-charging-profiles", "charging/update-charging-current"}

(* Topics: {user_id}/{vin}/service-event/{name}, .../operation-request/{name},
   and a topic neither pattern of lines 461 and 619 matches *)
ServiceEventNames ==
    {"charging", "air-conditioning", "vehicle-status/access", "vehicle-status/lights",
     "departure"}

OperationRequestNames ==
    {"air-conditioning/start-stop-air-conditioning", "charging/start-stop-charging",
     "vehicle-access/honk-and-flash"}

Topics ==
    {[kind |-> "service-event", vin |-> v, name |-> n] : v \in Vins, n \in ServiceEventNames}
    \cup {[kind |-> "operation-request", vin |-> v, name |-> n] :
                v \in Vins, n \in OperationRequestNames}
    \cup {[kind |-> "other", vin |-> v, name |-> "account-event/privacy"] : v \in Vins}

(* Payloads: empty, no JSON, JSON null, or a JSON object with the keys the
   callback reads ('name', 'data' with 'state' and 'soc', 'status'); None or
   NoneNum stands for a key that is absent *)
EventNames ==
    {"change-charge-mode", "change-soc", "change-remaining-time", "climatisation-completed",
     "change-access", "change-lights", "change-odometer"}

EventStates == {"charging", "connectCable", "off", "bogus"}

RequestStatuses == {"COMPLETED_SUCCESS", "IN_PROGRESS", "ERROR"}

JsonObject(name, has_data, state, soc, status) ==
    [form |-> "object", name |-> name, has_data |-> has_data, state |-> state,
     soc |-> soc, status |-> status]

EmptyPayload == [form |-> "empty"]

InvalidPayload == [form |-> "invalid"]

NullPayload == [form |-> "null"]

(* the payloads sent on the topic of each service event: its own events with
   and without their keys, an event of another name, no 'name' at all *)
ChargingEventPayloads ==
    {JsonObject(n, TRUE, st, soc, None) :
        n \in {"change-charge-mode", "change-soc"}, st \in EventStates \cup {None},
        soc \in {NoneNum, 80}}
    \cup {JsonObject("change-soc", FALSE, None, NoneNum, None),
          JsonObject("change-odometer", TRUE, None, NoneNum, None),
          JsonObject(None, TRUE, None, NoneNum, None)}

OtherEventPayloads(names) ==
    {JsonObject(n, d, None, NoneNum, None) :
        n \in names \cup {"change-odometer", None}, d \in BOOLEAN}

ServiceEventPayloads(service_event) ==
    CASE service_event = "charging" -> ChargingEventPayloads
      [] service_event = "air-conditioning"
            -> OtherEventPayloads({"change-remaining-time", "climatisation-completed"})
      [] service_event = "vehicle-status/access" -> OtherEventPayloads({"change-access"})
      [] service_event = "vehicle-status/lights" -> OtherEventPayloads({"change-lights"})
      [] OTHER -> {JsonObject("change-odometer", TRUE, None, NoneNum, None)}

OperationRequestPayloads ==
    {JsonObject(None, FALSE, None, NoneNum, st) : st \in RequestStatuses \cup {None}}

UnreadablePayloads == {EmptyPayload, InvalidPayload, NullPayload}

(* the messages the broker delivers *)
Messages ==
    {[topic |-> t, payload |-> p] :
        t \in {x \in Topics : x.kind = "other"}, p \in {EmptyPayload, NullPayload}}
    \cup UNION {{[topic |-> t, payload |-> p] :
                    p \in OperationRequestPayloads \cup UnreadablePayloads} :
                t \in {x \in Topics : x.kind = "operation-request"}}
    \cup UNION {{[topic |-> t, payload |-> p] :
                    p \in ServiceEventPayloads(t.name) \cup UnreadablePayloads} :
                t \in {x \in Topics : x.kind = "service-event"}}

(* the messages of the access events, which start the debounce timers, and
   all the others *)
AccessMessages == {m \in Messages : m.topic.name = "vehicle-status/access"}

DirectMessages == Messages \ AccessMessages

(* What a re-fetch can end with: success, an error derived from
   CarConnectivityError, or another exception *)
CarConnectivityErrors ==
    {"TooManyRequestsError", "RetrievalError", "APIError", "APICompatibilityError",
     "TemporaryAuthenticationError", "AuthenticationError"}

RefetchOutcomes == {"ok", "RetrievalError", "APIError", "KeyError"}

MsgIdle == [pc |-> "idle"]

(* threading.Timer objects, and the absence of one *)
NoTimer == 0

TimerIds == 1..MaxTimers

UnusedTimer == [state |-> "unused"]

(* the frame of a callback handling the message *)
MsgFrame(topic, payload) ==
    [pc |-> "done", topic |-> topic, payload |-> payload,
     before |-> IF garage[topic.vin] = NoVehicle THEN None
                ELSE garage[topic.vin].charging_state,
     old_charging_state |-> None, charging_state |-> None, wrote |-> FALSE,
     op |-> None, calls |-> <<>>, coalesced |-> FALSE, result |-> Return(None)]

(* what a branch of the callback leaves: the frame and the vehicle *)
Handled(frame, vehicle) == [msg |-> frame, vehicle |-> vehicle]

(* a branch that wrote attributes of the vehicle *)
Written(frame, vehicle) == [msg |-> [frame EXCEPT !.wrote = TRUE], vehicle |-> vehicle]

MsgRaises(frame, exc) == [frame EXCEPT !.result = Raise(exc)]

MsgCalls(frame, op) == [frame EXCEPT !.pc = "refetch", !.op = op, !.result = NoResult]

(* lines 472-537 with the re-fetch of line 516 made for every event that
   carries a state *)
OnChargingEvent_everyState(frame, data, vehicle) ==
    IF data.name = None
    THEN Handled(MsgRaises(frame, "KeyError"), vehicle)
    ELSE IF data.name \in {"change-charge-mode", "change-soc"} /\ data.has_data
              /\ IsSkodaElectricVehicle(vehicle) /\ vehicle.electric_drive
    THEN LET old_charging_state == vehicle.charging_state
             charging_state == IF data.state # None THEN DerivedChargingState(data.state)
                               ELSE old_charging_state
             updated == [vehicle EXCEPT
                            !.charging_state = charging_state,
                            !.charging_type = IF data.state # None /\ charging_state = "OFF"
                                              THEN "OFF" ELSE @,
                            !.level = IF data.soc # NoneNum THEN data.soc ELSE @]
             seen == [frame EXCEPT !.old_charging_state = old_charging_state,
                                   !.charging_state = charging_state]
             written == data.state # None \/ data.soc # NoneNum
         IN IF data.state # None
            THEN Written(MsgCalls(seen, "fetch_charging"), updated)
            ELSE IF written THEN Written(seen, updated) ELSE Handled(seen, updated)
    ELSE Handled(frame, vehicle)

(* lines 472-537: service event 'charging' *)
OnChargingEvent(frame, data, vehicle) ==
    IF data.name = None
    THEN Handled(MsgRaises(frame, "KeyError"), vehicle)
    ELSE IF data.name \in {"change-charge-mode", "change-soc"} /\ data.has_data
              /\ IsSkodaElectricVehicle(vehicle) /\ vehicle.electric_drive
    THEN LET old_charging_state == vehicle.charging_state
             charging_state == IF data.state # None THEN DerivedChargingState(data.state)
                               ELSE old_charging_state
             updated == [vehicle EXCEPT
                            !.charging_state = charging_state,
                            !.charging_type = IF data.state # None /\ charging_state = "OFF"
                                              THEN "OFF" ELSE @,
                            !.level = IF data.soc # NoneNum THEN data.soc ELSE @]
             seen == [frame EXCEPT !.old_charging_state = old_charging_state,
                                   !.charging_state = charging_state]
             written == data.state # None \/ data.soc # NoneNum
         IN IF old_charging_state # charging_state
            THEN Written(MsgCalls(seen, "fetch_charging"), updated)
            ELSE IF written THEN Written(seen, updated) ELSE Handled(seen, updated)
    ELSE Handled(frame, vehicle)

(* lines 538-558: service event 'air-conditioning' *)
OnAirConditioningEvent(frame, data, vehicle) ==
    IF data.name = "change-remaining-time"
    THEN IF data.has_data /\ IsSkodaVehicle(vehicle)
         THEN Handled(MsgCalls(frame, "fetch_air_conditioning"), vehicle)
         ELSE Handled(frame, vehicle)
    ELSE IF data.name = "climatisation-completed"
    THEN IF data.has_data /\ vehicle # NoVehicle
         THEN Written(frame, [vehicle EXCEPT !.climatization_state = "OFF"])
         ELSE Handled(frame, vehicle)
    ELSE IF data.name = None
    THEN Handled(MsgRaises(frame, "KeyError"), vehicle)
    ELSE Handled(frame, vehicle)

(* lines 559-563 and 599-601: service event 'vehicle-status/access' up to the
   timer handling *)
OnAccessEvent(frame, data, vehicle) ==
    IF data.name = "change-access"
    THEN IF data.has_data /\ IsSkodaVehicle(vehicle)
         THEN Handled([frame EXCEPT !.pc = "access_check", !.result = NoResult], vehicle)
         ELSE Handled(frame, vehicle)
    ELSE IF data.name = None
    THEN Handled(MsgRaises(frame, "KeyError"), vehicle)
    ELSE Handled(frame, vehicle)

(* lines 602-615: service event 'vehicle-status/lights' *)
OnLightsEvent(frame, data, vehicle) ==
    IF data.name = "change-lights"
    THEN IF data.has_data /\ IsSkodaVehicle(vehicle)
         THEN Handled(MsgCalls(frame, "fetch_vehicle_status"), vehicle)
         ELSE Handled(frame, vehicle)
    ELSE IF data.name = None
    THEN Handled(MsgRaises(frame, "KeyError"), vehicle)
    ELSE Handled(frame, vehicle)

(* lines 461-617: a topic of a service event *)
OnServiceEvent(frame, service_event, payload, vehicle) ==
    IF payload.form = "invalid" THEN Handled(MsgRaises(frame, "JSONDecodeError"), vehicle)
    ELSE IF payload.form = "null" THEN Handled(frame, vehicle)
    ELSE IF service_event = "charging" THEN OnChargingEvent(frame, payload, vehicle)
    ELSE IF service_event = "air-conditioning" THEN OnAirConditioningEvent(frame, payload, vehicle)
    ELSE IF service_event = "vehicle-status/access" THEN OnAccessEvent(frame, payload, vehicle)
    ELSE IF service_event = "vehicle-status/lights" THEN OnLightsEvent(frame, payload, vehicle)
    ELSE Handled(frame, vehicle)

(* lines 637-647 answering on another status than COMPLETED_SUCCESS *)
OnRequestStatus_inProgress(frame, status, op) ==
    IF status = "IN_PROGRESS" THEN MsgCalls(frame, op) ELSE frame

(* lines 637-647 and 658-668: the status of a known operation request *)
OnRequestStatus(frame, status, op) ==
    IF status = "COMPLETED_SUCCESS" THEN MsgCalls(frame, op) ELSE frame

(* lines 619-670: a topic of an operation request *)
OnOperationRequest(frame, operation_request, payload, vehicle) ==
    IF payload.form = "invalid" THEN Handled(MsgRaises(frame, "JSONDecodeError"), vehicle)
    ELSE IF payload.form = "null" THEN Handled(frame, vehicle)
    ELSE IF operation_request \in AirConditioningRequests
    THEN IF IsSkodaVehicle(vehicle) /\ payload.status # None
         THEN Handled(OnRequestStatus(frame, payload.status, "fetch_air_conditioning"), vehicle)
         ELSE Handled(frame, vehicle)
    ELSE IF operation_request \in ChargingRequests
    THEN IF IsSkodaElectricVehicle(vehicle) /\ payload.status # None
         THEN Handled(OnRequestStatus(frame, payload.status, "fetch_charging"), vehicle)
         ELSE Handled(frame, vehicle)
    ELSE Handled(frame, vehicle)

(* lines 438-671 up to the first re-fetch or timer access: a message arrives *)
MsgBegin(topic, payload) ==
    /\ msg.pc = "idle"
    /\ (topic.kind = "service-event" /\ topic.name = "vehicle-status/access")
           => \E i \in TimerIds : tm[i].state = "unused"
    /\ LET frame == MsgFrame(topic, payload)
           vehicle == garage[topic.vin]
           handled == IF payload.form = "empty" THEN Handled(frame, vehicle)
                      ELSE IF topic.kind = "service-event"
                      THEN OnServiceEvent(frame, topic.name, payload, vehicle)
                      ELSE IF topic.kind = "operation-request"
                      THEN OnOperationRequest(frame, topic.name, payload, vehicle)
                      ELSE Handled(frame, vehicle)
       IN /\ msg' = handled.msg
          /\ garage' = [garage EXCEPT ![topic.vin] = handled.vehicle]
    /\ UNCHANGED <<delayed_access_function_timers, tm, access, outsideFeed>>

(* What the REST answer of a re-fetch reports *)
RestChargingStates == {"CHARGING", "OFF"}

RestClimatizationStates == {"OFF", "HEATING"}

(* fetch_charging lines 446-456, fetch_air_conditioning: the attributes a
   successful re-fetch writes *)
Refetched(vehicle, op, charging_state, climatization_state) ==
    IF op = "fetch_charging" THEN [vehicle EXCEPT !.charging_state = charging_state]
    ELSE IF op = "fetch_air_conditioning"
    THEN [vehicle EXCEPT !.climatization_state = climatization_state]
    ELSE vehicle

(* line 594: is there a timer for the VIN *)
MsgAccessCheck ==
    /\ msg.pc = "access_check"
    /\ msg' = [msg EXCEPT !.pc = IF delayed_access_function_timers[msg.topic.vin] # NoTimer
                                 THEN "access_cancel" ELSE "access_store"]
    /\ UNCHANGED <<garage, delayed_access_function_timers, tm, access, outsideFeed>>

(* line 595: the timer found for the VIN is cancelled; the message is
   coalesced with the earlier ones when that timer had not yet expired *)
MsgAccessCancel ==
    /\ msg.pc = "access_cancel"
    /\ LET timer == delayed_access_function_timers[msg.topic.vin]
       IN IF timer = NoTimer
          THEN /\ msg' = [msg EXCEPT !.pc = "done", !.result = Raise("KeyError")]
               /\ UNCHANGED tm
          ELSE /\ msg' = [msg EXCEPT !.pc = "access_store",
                                     !.coalesced = (tm[timer].state = "waiting")]
               /\ tm' = [tm EXCEPT ![timer].cancelled = TRUE]
    /\ UNCHANGED <<garage, delayed_access_function_timers, access, outsideFeed>>

(* the timer object the next threading.Timer(...) call creates *)
NewTimer == CHOOSE i \in TimerIds : tm[i].state = "unused" /\ \A j \in 1..(i - 1) : tm[j].state # "unused"

(* line 596: a new timer is created and stored for the VIN; it opens a new
   debounce window unless the message was coalesced *)
MsgAccessStore ==
    /\ msg.pc = "access_store"
    /\ LET vin == msg.topic.vin
       IN /\ tm' = [tm EXCEPT ![NewTimer] = [state |-> "created", vin |-> vin,
                                              cancelled |-> FALSE, todo |-> <<>>]]
          /\ delayed_access_function_timers' =
                 [delayed_access_function_timers EXCEPT ![vin] = NewTimer]
          /\ access' = [access EXCEPT ![vin].windows = IF msg.coalesced THEN @ ELSE @ + 1]
    /\ msg' = [msg EXCEPT !.pc = "access_start"]
    /\ UNCHANGED <<garage, outsideFeed>>

(* lines 597-601: the timer stored for the VIN is started *)
MsgAccessStart ==
    /\ msg.pc = "access_start"
    /\ LET timer == delayed_access_function_timers[msg.topic.vin]
       IN IF timer = NoTimer
          THEN /\ msg' = [msg EXCEPT !.pc = "done", !.result = Raise("KeyError")]
               /\ UNCHANGED tm
          ELSE /\ msg' = [msg EXCEPT !.pc = "done", !.result = Return(None)]
               /\ tm' = [tm EXCEPT ![timer].state = "waiting"]
    /\ UNCHANGED <<garage, delayed_access_function_timers, access, outsideFeed>>

(* threading.Timer.run: the two seconds are over, or cancel() ended the wait;
   the function is called unless the timer was cancelled *)
TimerExpire(timer) ==
    /\ tm[timer].state = "waiting"
    /\ tm' = [tm EXCEPT ![timer].state = IF tm[timer].cancelled THEN "dead" ELSE "called"]
    /\ UNCHANGED <<garage, msg, delayed_access_function_timers, access, outsideFeed>>

(* lines 571-591: the re-fetches delayed_access_function makes for the vehicle *)
DelayedRefetches(vehicle) ==
    <<"fetch_vehicle_status">>
    \o (IF "CHARGING" \in vehicle.capabilities /\ IsSkodaElectricVehicle(vehicle)
        THEN <<"fetch_charging">> ELSE <<>>)
    \o (IF "PARKING_POSITION" \in vehicle.capabilities THEN <<"fetch_position">> ELSE <<>>)
    \o (IF "AIR_CONDITIONING" \in vehicle.capabilities
        THEN <<"fetch_air_conditioning">> ELSE <<>>)

(* lines 568-569: delayed_access_function removes the entry of its VIN *)
TimerPop(timer) ==
    /\ tm[timer].state = "called"
    /\ LET vin == tm[timer].vin
       IN IF delayed_access_function_timers[vin] = NoTimer
          THEN /\ tm' = [tm EXCEPT ![timer].state = "crashed"]
               /\ UNCHANGED delayed_access_function_timers
          ELSE /\ tm' = [tm EXCEPT ![timer].state = "running",
                                   ![timer].todo = DelayedRefetches(garage[vin])]
               /\ delayed_access_function_timers' =
                      [delayed_access_function_timers EXCEPT ![vin] = NoTimer]
    /\ UNCHANGED <<garage, msg, access, outsideFeed>>

(* lines 570-592: the next re-fetch of delayed_access_function ends; only
   CarConnectivityError is caught; after the last one transaction_end() *)
TimerRefetch(timer, outcome, charging_state, climatization_state) ==
    /\ tm[timer].state = "running"
    /\ LET vin == tm[timer].vin
           op == Head(tm[timer].todo)
           caught == outcome = "ok" \/ outcome \in CarConnectivityErrors
       IN /\ tm' = [tm EXCEPT ![timer].todo = Tail(@),
                              ![timer].state = IF ~caught THEN "crashed"
                                               ELSE IF Tail(tm[timer].todo) = <<>>
                                               THEN "finished" ELSE "running"]
          /\ garage' = IF outcome = "ok"
                       THEN [garage EXCEPT ![vin] =
                                Refetched(@, op, charging_state, climatization_state)]
                       ELSE garage
          /\ access' = IF op = "fetch_vehicle_status"
                       THEN [access EXCEPT ![vin].fetches = @ + 1] ELSE access
    /\ UNCHANGED <<msg, delayed_access_function_timers, outsideFeed>>

(* lines 515-519, 543-547, 607-611, 639-643, 660-664: the re-fetch made by
   the callback ends; only CarConnectivityError is caught *)
MsgRefetch(outcome, charging_state, climatization_state) ==
    /\ msg.pc = "refetch"
    /\ msg' = [msg EXCEPT !.pc = "done", !.calls = Append(@, msg.op),
                          !.wrote = (@ \/ outcome = "ok"),
                          !.result = IF outcome = "ok" \/ outcome \in CarConnectivityErrors
                                     THEN Return(None) ELSE Raise(outcome)]
    /\ garage' = IF outcome = "ok"
                 THEN [garage EXCEPT ![msg.topic.vin] =
                          Refetched(@, msg.op, charging_state, climatization_state)]
                 ELSE garage
    /\ UNCHANGED <<delayed_access_function_timers, tm, access, outsideFeed>>

(* the callback returns to the MQTT network loop, or its exception leaves it *)
MsgReturn ==
    /\ msg.pc = "done"
    /\ msg' = MsgIdle
    /\ UNCHANGED <<garage, delayed_access_function_timers, tm, access, outsideFeed>>

----------------------------------------------------------------------------
(* SkodaMQTTClient: topic subscriptions. The MQTT network thread runs
   _on_connect_callback and _on_disconnect_callback; the thread that changes
   the garage runs the observer _on_carconnectivity_vehicle_enabled. *)

SubThreads == {"network", "garage"}

(* lines 184-222: the event names of a vehicle's topics; the model keeps one
   account event and one service event *)
account_events == {"privacy"}

service_events == {"vehicle-status/access"}

(* lines 223-231: possible_topics, {user_id}/{vin}/{category}/{event} *)
PossibleTopics(vin) ==
    {[kind |-> "account-event", vin |-> vin, name |-> n] : n \in account_events}
    \cup {[kind |-> "service-event", vin |-> vin, name |-> n] : n \in service_events}

AllTopics == UNION {PossibleTopics(vin) : vin \in Vins}

(* no topic *)
NoTopic == [kind |-> "None"]

(* a thread that runs no subscription handler *)
SubIdle == [pc |-> "idle"]

(* the frame of a handler: the vehicles _subscribe_vehicles still has to
   visit, the vehicle and the topics _subscribe_vehicle still has to visit,
   the vehicles listed, the vehicles left out, the topics subscribe was
   called for, the topics found subscribed, and the topic set before and
   after _unsubscribe_vehicle *)
SubFrame(handler, pc, todo, vin) ==
    [pc |-> pc, handler |-> handler, todo |-> todo, vin |-> vin, left |-> {},
     topic |-> NoTopic, listed |-> todo, skipped |-> {}, issued |-> {}, found |-> {},
     before |-> {}, after |-> {},
     result |-> Return(None)]

(* garage.list_vehicles() *)
ListVehicles == {vin \in Vins : garage[vin] # NoVehicle}

(* the vehicle the connector adds to the garage, connector.py line 335 *)
NewVehicle == Vehicle("SkodaVehicle", FALSE, {}, None)

(* _on_connect_callback, lines 315-323: on success the flags are set and the
   observer is registered *)
SubOnConnect(reason_code) ==
    /\ sub["network"].pc = "idle"
    /\ ~mqtt_connected
    /\ IF reason_code = 0
       THEN /\ connection_state' = IF rest_connected THEN CONNECTED ELSE connection_state
            /\ mqtt_connected' = TRUE
            /\ observer' = TRUE
            /\ sub' = [sub EXCEPT !["network"] = SubFrame("connect", "list", {}, None)]
       ELSE UNCHANGED <<connection_state, mqtt_connected, observer, sub>>
    /\ UNCHANGED <<subscribed_topics, user_id, broker, garage, outsideSub>>

(* lines 324 and 135: _subscribe_vehicles lists the vehicles of the garage *)
SubListVehicles ==
    /\ sub["network"].pc = "list"
    /\ sub' = [sub EXCEPT !["network"] =
                    SubFrame("connect", "vehicles", ListVehicles, None)]
    /\ UNCHANGED <<subscribed_topics, observer, user_id, broker, garage, connection_state,
                   mqtt_connected, outsideSub>>

(* _subscribe_vehicles, lines 135-136: the next vehicle of the list *)
SubNextVehicle ==
    /\ sub["network"].pc = "vehicles"
    /\ IF sub["network"].todo = {}
       THEN sub' = [sub EXCEPT !["network"].pc = "done"]
       ELSE \E vin \in sub["network"].todo :
                sub' = [sub EXCEPT !["network"].pc = "vehicle",
                                   !["network"].vin = vin,
                                   !["network"].todo = @ \ {vin}]
    /\ UNCHANGED <<subscribed_topics, observer, user_id, broker, garage, connection_state,
                   mqtt_connected, outsideSub>>

(* where a thread goes when _subscribe_vehicle returns *)
AfterVehicle(frame) ==
    IF frame.handler = "connect" THEN [frame EXCEPT !.pc = "vehicles"]
    ELSE [frame EXCEPT !.pc = "done"]

(* line 239: the vehicle is left out for want of a user id *)
WithoutUserId(frame) == [frame EXCEPT !.skipped = @ \cup {frame.vin}]

(* _subscribe_vehicle, lines 173-231: fetch_user when the user id is unknown
   (it may leave it unknown); without user id nothing is subscribed *)
SubscribeVehicleBegin(th, fetched) ==
    /\ sub[th].pc = "vehicle"
    /\ user_id' = IF user_id = None THEN fetched ELSE user_id
    /\ IF user_id' = None
       THEN sub' = [sub EXCEPT ![th] = AfterVehicle(WithoutUserId(sub[th]))]
       ELSE sub' = [sub EXCEPT ![th].pc = "topics",
                               ![th].left = PossibleTopics(sub[th].vin)]
    /\ UNCHANGED <<subscribed_topics, observer, broker, garage, connection_state,
                   mqtt_connected, outsideSub>>

(* lines 232-233: the next topic of possible_topics, tested against
   subscribed_topics *)
SubscribeTopicCheck(th) ==
    /\ sub[th].pc = "topics"
    /\ IF sub[th].left = {}
       THEN sub' = [sub EXCEPT ![th] = AfterVehicle(sub[th])]
       ELSE \E topic \in sub[th].left :
                IF topic \notin subscribed_topics
                THEN sub' = [sub EXCEPT ![th].pc = "subscribe",
                                        ![th].topic = topic,
                                        ![th].left = @ \ {topic}]
                ELSE sub' = [sub EXCEPT ![th].left = @ \ {topic},
                                        ![th].found = @ \cup {topic}]
    /\ UNCHANGED <<subscribed_topics, observer, user_id, broker, garage, connection_state,
                   mqtt_connected, outsideSub>>

(* Client.subscribe: MQTT_ERR_NO_CONN without a connection *)
Subscribe(topic) ==
    IF mqtt_connected THEN "MQTT_ERR_SUCCESS" ELSE "MQTT_ERR_NO_CONN"

(* lines 234-238: subscribe; the topic is added when it succeeded *)
SubscribeTopic(th) ==
    /\ sub[th].pc = "subscribe"
    /\ LET topic == sub[th].topic
           mqtt_err == Subscribe(topic)
       IN /\ broker' = IF mqtt_err = "MQTT_ERR_SUCCESS"
                       THEN [broker EXCEPT ![topic] = @ + 1] ELSE broker
          /\ subscribed_topics' = IF mqtt_err = "MQTT_ERR_SUCCESS"
                                  THEN subscribed_topics \cup {topic}
                                  ELSE subscribed_topics
          /\ sub' = [sub EXCEPT ![th].pc = "topics", ![th].topic = NoTopic,
                                ![th].issued = @ \cup {topic}]
    /\ UNCHANGED <<observer, user_id, garage, connection_state, mqtt_connected, outsideSub>>

(* _on_disconnect_callback, lines 392-396: the flags are cleared, the observer
   is removed, subscribed_topics is emptied; the broker's subscriptions ended
   with the connection *)
SubOnDisconnect ==
    /\ sub["network"].pc = "idle"
    /\ mqtt_connected
    /\ connection_state' = DISCONNECTED
    /\ mqtt_connected' = FALSE
    /\ observer' = FALSE
    /\ subscribed_topics' = {}
    /\ broker' = [t \in AllTopics |-> 0]
    /\ UNCHANGED <<user_id, sub, garage, outsideSub>>

(* a vehicle is added to the garage or replaced in it (connector.py lines 335
   and 1250-1251); lines 120-121: the observer, when registered, runs
   _subscribe_vehicle in the thread that made the change *)
VehicleEnabled(vin) ==
    /\ sub["garage"].pc = "idle"
    /\ garage' = [garage EXCEPT ![vin] = NewVehicle]
    /\ sub' = IF observer
              THEN [sub EXCEPT !["garage"] = SubFrame("enabled", "vehicle", {}, vin)]
              ELSE sub
    /\ UNCHANGED <<subscribed_topics, observer, user_id, broker, connection_state,
                   mqtt_connected, outsideSub>>

(* what _unsubscribe_vehicle, lines 262-267, makes of subscribed_topics: the
   loop removes one topic of the VIN, and the set iterator then raises
   RuntimeError (Set changed size during iteration) *)
UnsubscribeVehicle(vin, topic) ==
    IF \E t \in subscribed_topics : t.vin = vin
    THEN [topics |-> subscribed_topics \ {topic}, removed |-> {topic},
          result |-> Raise("RuntimeError")]
    ELSE [topics |-> subscribed_topics, removed |-> {}, result |-> Return(None)]

(* a vehicle is removed from the garage (connector.py lines 273-274 and 357);
   lines 122-123: the observer, when registered, runs _unsubscribe_vehicle *)
VehicleDisabled(vin) ==
    /\ sub["garage"].pc = "idle"
    /\ garage[vin] # NoVehicle
    /\ garage' = [garage EXCEPT ![vin] = NoVehicle]
    /\ IF observer
       THEN LET mine == {t \in subscribed_topics : t.vin = vin}
            IN \E topic \in IF mine = {} THEN {NoTopic} ELSE mine :
                LET done == UnsubscribeVehicle(vin, topic)
                IN /\ subscribed_topics' = done.topics
                   /\ broker' = [t \in AllTopics |->
                                    IF t \in done.removed THEN 0 ELSE broker[t]]
                   /\ sub' = [sub EXCEPT !["garage"] =
                                [SubFrame("disabled", "done", {}, vin) EXCEPT
                                    !.before = subscribed_topics,
                                    !.after = done.topics,
                                    !.result = done.result]]
       ELSE UNCHANGED <<subscribed_topics, broker, sub>>
    /\ UNCHANGED <<observer, user_id, connection_state, mqtt_connected, outsideSub>>

(* the handler returns (or raises) to its caller *)
SubReturn(th) ==
    /\ sub[th].pc = "done"
    /\ sub' = [sub EXCEPT ![th] = SubIdle]
    /\ UNCHANGED <<subscribed_topics, observer, user_id, broker, garage, connection_state,
                   mqtt_connected, outsideSub>>

----------------------------------------------------------------------------
(* SkodaMQTTClient._on_pre_connect_callback: the password of a connect attempt *)

(* the token endpoint MySkodaSession.refresh hands to refresh_tokens *)
SessionRefreshUrl == "https://"

(* session.expired or session.access_token is None *)
NeedsRefresh == expired \/ token.access_token = NoneNum

(* not session.expired and session.access_token is not None *)
HoldsLiveToken == ~expired /\ token.access_token # NoneNum

(* lines 100-101: the hook starts; an expired or absent access token sends it
   to session.refresh() *)
PreConnectBegin ==
    /\ pq.pc = "idle"
    /\ rt.pc = "idle"
    /\ pq' = [pc |-> IF NeedsRefresh THEN "refresh" ELSE "set", needed |-> NeedsRefresh,
              refreshed |-> FALSE, before |-> _password, result |-> NoResult]
    /\ UNCHANGED <<token, rt, _password, expired, outsidePre>>

(* line 101: session.refresh() calls refresh_tokens with the refresh URL *)
PreConnectRefreshCall ==
    /\ pq.pc = "refresh"
    /\ RefreshCall(SessionRefreshUrl, NoneNum)

(* login() of lines 58-77 when the redirect carries no authorization code:
   fetch_tokens returns None at line 125, session.token is what the redirect
   held, and refresh_tokens returns it *)
PreConnectLoginWithoutCode ==
    /\ pq.pc = "refresh"
    /\ rt.pc = "login"
    /\ token' = FragmentToken("nothing")
    /\ rt' = [rt EXCEPT !.pc = "done", !.logins = @ + 1, !.login = "no code",
                        !.result = Return(token')]
    /\ UNCHANGED outsideRefresh

(* line 101: session.refresh() ends; a new token bundle is not expired, an
   exception leaves the hook *)
PreConnectRefreshed ==
    /\ pq.pc = "refresh"
    /\ rt.pc = "done"
    /\ rt' = [pc |-> "idle"]
    /\ expired' = IF token.access_token # NoneNum /\ token # rt.token0 THEN FALSE ELSE expired
    /\ pq' = IF rt.result.kind = "raise"
             THEN [pq EXCEPT !.pc = "done", !.refreshed = TRUE, !.result = rt.result]
             ELSE [pq EXCEPT !.pc = "set", !.refreshed = TRUE]
    /\ UNCHANGED <<token, _password, outsidePre>>

(* lines 102-104 with the password set whatever the session holds *)
PreConnectSet_unconditional ==
    /\ pq.pc = "set"
    /\ _password' = token.access_token
    /\ pq' = [pq EXCEPT !.pc = "done", !.result = Return(None)]
    /\ UNCHANGED <<token, rt, expired, outsidePre>>

(* lines 102-104: the password becomes the access token if the session holds
   one that is not expired *)
PreConnectSet ==
    /\ pq.pc = "set"
    /\ _password' = IF HoldsLiveToken THEN token.access_token ELSE _password
    /\ pq' = [pq EXCEPT !.pc = "done", !.result = Return(None)]
    /\ UNCHANGED <<token, rt, expired, outsidePre>>

(* the hook is left: the client connects with _password, or the exception of
   the refresh ends the attempt *)
PreConnectReturn ==
    /\ pq.pc = "done"
    /\ pq' = [pc |-> "idle"]
    /\ UNCHANGED <<token, rt, _password, expired, outsidePre>>

(* between two connect attempts the access token of the session expires *)
Expire ==
    /\ pq.pc = "idle"
    /\ token.access_token # NoneNum
    /\ ~expired
    /\ expired' = TRUE
    /\ UNCHANGED <<token, rt, _password, pq, outsidePre>>

----------------------------------------------------------------------------
(* Connector.fetch_driving_range: promotion of a vehicle to the subtype of
   the reported car type *)

(* the classes of vehicle.py *)
SkodaClasses ==
    {"SkodaVehicle", "SkodaElectricVehicle", "SkodaCombustionVehicle", "SkodaHybridVehicle"}

(* GenericVehicle.Type values the answers carry, and a string outside them *)
KnownCarTypes == {"electric", "diesel", "gasoline", "hybrid", "unknown"}

CarTypes == KnownCarTypes \cup {"bogus"}

(* driving-range answers: nothing, an answer without carCapturedTimestamp, or
   an answer with a time stamp and with or without a car type *)
RangeAnswers ==
    {[kind |-> "empty"], [kind |-> "no timestamp"], [kind |-> "data", carType |-> None]}
        \cup {[kind |-> "data", carType |-> t] : t \in CarTypes}

(* GenericVehicle.Type(value): raises ValueError for a string outside the names *)
CarTypeOf(value) == IF value \in KnownCarTypes THEN value ELSE "ValueError"

(* lines 1247-1262: the class the branches of the promotion name for a type *)
MatchingClass(car_type) ==
    CASE car_type = "electric" -> "SkodaElectricVehicle"
      [] car_type \in {"diesel", "gasoline"} -> "SkodaCombustionVehicle"
      [] car_type = "hybrid" -> "SkodaHybridVehicle"
      [] OTHER -> None

(* a vehicle object of the garage: its identity, class, type attribute, and
   the sub-objects the copy constructor of SkodaVehicle names *)
VehicleObject(obj, kind, capabilities, in_motion) ==
    [obj |-> obj, kind |-> kind, type |-> None, capabilities |-> capabilities,
     in_motion |-> in_motion, ignition_on |-> None, has_charging |-> kind = "SkodaElectricVehicle"]

(* vehicle.py lines 36-50 and 79-85 with fresh capabilities in place of those
   of the origin *)
CopyConstructed_freshCapabilities(kind, origin) ==
    [obj |-> origin.obj + 1, kind |-> kind, type |-> origin.type,
     capabilities |-> {}, in_motion |-> origin.in_motion,
     ignition_on |-> origin.ignition_on, has_charging |-> kind = "SkodaElectricVehicle"]

(* vehicle.py lines 36-50 and 79-85: Class(garage, origin=vehicle) is a new
   object that holds the capabilities, in_motion and ignition_on of the origin *)
CopyConstructed(kind, origin) ==
    [obj |-> origin.obj + 1, kind |-> kind, type |-> origin.type,
     capabilities |-> origin.capabilities, in_motion |-> origin.in_motion,
     ignition_on |-> origin.ignition_on, has_charging |-> kind = "SkodaElectricVehicle"]

(* lines 1244-1263: the vehicle after the car type of the answer is handled *)
WithCarType(vehicle, carType) ==
    LET car_type == CarTypeOf(carType)
        promoted == IF car_type # "ValueError" /\ MatchingClass(car_type) # None
                       /\ vehicle.kind # MatchingClass(car_type)
                    THEN CopyConstructed(MatchingClass(car_type), vehicle)
                    ELSE vehicle
    IN [promoted EXCEPT !.type = IF car_type = "ValueError" THEN "unknown" ELSE car_type]

(* lines 1234-1263: the driving range of a vehicle of the garage is fetched *)
FetchDrivingRange(vin, range_data) ==
    /\ pr.pc = "idle"
    /\ garage[vin] # NoVehicle
    /\ garage[vin].obj < MaxPromotions
    /\ LET vehicle == garage[vin]
           frame == [pc |-> "done", vin |-> vin, range_data |-> range_data,
                     before |-> garage, result |-> Return(None)]
       IN CASE range_data.kind = "empty" ->
                    /\ pr' = frame
                    /\ UNCHANGED garage
            [] range_data.kind = "no timestamp" ->
                    /\ pr' = [frame EXCEPT !.result = Raise("APIError")]
                    /\ UNCHANGED garage
            [] OTHER ->
                    /\ pr' = frame
                    /\ garage' = IF range_data.carType = None THEN garage
                                 ELSE [garage EXCEPT ![vin] = WithCarType(vehicle, range_data.carType)]
    /\ UNCHANGED outsidePromote

(* the caller receives the result *)
FetchDrivingRangeReturn ==
    /\ pr.pc = "done"
    /\ pr' = [pc |-> "idle"]
    /\ UNCHANGED <<garage, outsidePromote>>

----------------------------------------------------------------------------
(* Enum-like string fields of the REST answers and of the MQTT events *)

(* names of SkodaCharging.SkodaChargingState, charging.py lines 51-79 *)
SkodaChargingStateNames ==
    {"OFF", "CONNECT_CABLE", "READY_FOR_CHARGING", "NOT_READY_FOR_CHARGING", "CONSERVING",
     "CHARGE_PURPOSE_REACHED_NOT_CONSERVATION_CHARGING", "CHARGE_PURPOSE_REACHED_CONSERVATION",
     "CHARGING", "ERROR", "UNSUPPORTED", "DISCHARGING", "UNKNOWN"}

(* names and values of SkodaCharging.SkodaChargeMode, charging.py lines 81-103 *)
SkodaChargeModeNames ==
    {"HOME_STORAGE_CHARGING", "IMMEDIATE_DISCHARGING", "ONLY_OWN_CURRENT",
     "PREFERRED_CHARGING_TIMES", "TIMER_CHARGING_WITH_CLIMATISATION", "TIMER", "MANUAL",
     "OFF", "UNKNOWN"}

SkodaChargeModeValues ==
    {"HOME_STORAGE_CHARGING", "IMMEDIATE_DISCHARGING", "ONLY_OWN_CURRENT",
     "PREFERRED_CHARGING_TIMES", "TIMER_CHARGING_WITH_CLIMATISATION", "timer", "manual",
     "off", "unknown charge mode"}

(* the fields: those of the REST answers by the key of the payload, those of
   the MQTT charging event with the prefix of the event *)
RestEnumFields ==
    {"state", "chargeType", "preferredChargeMode", "chargingCareMode", "batterySupport",
     "maxChargeCurrentAc", "autoUnlockPlugWhenCharged", "climatisationState",
     "chargerConnectionState", "chargerLockState", "windowHeatingState", "doorsLocked",
     "locked", "doors", "windows", "lights", "carType"}

EventEnumFields == {"event.mode", "event.state"}

EnumFields == RestEnumFields \cup EventEnumFields

(* the strings the code knows for a field: the names or values of the enum it
   tests against, or the literals of its elif chain *)
KnownValues(field) ==
    CASE field = "state" -> SkodaChargingStateNames
      [] field = "chargeType" -> {"AC", "DC", "OFF"}
      [] field = "preferredChargeMode" -> SkodaChargeModeNames
      [] field = "chargingCareMode" -> {"ACTIVATED", "DEACTIVATED", "UNKNOWN"}
      [] field = "batterySupport" -> {"ENABLED", "DISABLED", "NOT_ALLOWED", "UNKNOWN"}
      [] field = "maxChargeCurrentAc" -> {"MAXIMUM", "REDUCED"}
      [] field = "autoUnlockPlugWhenCharged" -> {"ON", "PERMANENT", "OFF"}
      [] field = "climatisationState" -> {"OFF", "HEATING", "COOLING", "VENTILATION"}
      [] field = "chargerConnectionState" -> {"CONNECTED", "DISCONNECTED"}
      [] field = "chargerLockState" -> {"LOCKED", "UNLOCKED"}
      [] field = "windowHeatingState" -> {"ON", "OFF", "INVALID"}
      [] field = "doorsLocked" -> {"YES", "NO", "OPENED", "UNLOCKED", "TRUNK_OPENED", "UNKNOWN"}
      [] field = "locked" -> {"YES", "NO", "UNKNOWN"}
      [] field = "doors" -> {"CLOSED", "OPEN", "UNSUPPORTED", "UNKNOWN"}
      [] field = "windows" -> {"CLOSED", "OPEN", "UNKNOWN", "UNSUPPORTED"}
      [] field = "lights" -> {"ON", "OFF", "UNKNOWN"}
      [] field = "carType" -> KnownCarTypes
      [] field = "event.mode" -> SkodaChargeModeValues
      [] field = "event.state" -> SkodaChargingStateValues

(* a string outside every name set *)
UnknownValue == "bogus"

FieldValues(field) == KnownValues(field) \cup {UnknownValue}

(* the UNKNOWN member of the enum *)
UNKNOWN == "UNKNOWN"

(* what _set_value receives for a known string: the member, number or boolean
   the code derives from it *)
KnownAttribute(field, value) ==
    CASE field = "maxChargeCurrentAc" -> IF value = "MAXIMUM" THEN "16" ELSE "6"
      [] field = "autoUnlockPlugWhenCharged" -> IF value = "OFF" THEN "False" ELSE "True"
      [] field = "doorsLocked" -> IF value = "YES" THEN "LOCKED"
                                  ELSE IF value = "UNKNOWN" THEN UNKNOWN ELSE "UNLOCKED"
      [] field = "locked" -> IF value = "YES" THEN "LOCKED"
                             ELSE IF value = "UNKNOWN" THEN UNKNOWN ELSE "UNLOCKED"
      [] field = "carType" -> IF value = "unknown" THEN UNKNOWN ELSE value
      [] field = "event.state" -> MappingSkodaChargingState(value)
      [] field = "event.mode" -> IF value = "unknown charge mode" THEN UNKNOWN ELSE value
      [] OTHER -> value

(* what _set_value receives for a string outside the known ones: the else
   branch of the field *)
UnknownAttribute(field) ==
    IF field \in {"maxChargeCurrentAc", "autoUnlockPlugWhenCharged"} THEN None ELSE UNKNOWN

(* connector.py lines 448-456, 478-485, 524-535, 540-548, 552-556, 577-581,
   591-595, 811-815, 962-971, 977-986, 1003-1012, 1246-1269, 1351-1416: a field
   of a REST answer is read and the attribute set *)
ReadRestField(field, value) ==
    /\ en.pc = "idle"
    /\ field \in RestEnumFields
    /\ en' = [pc |-> "done", field |-> field, value |-> value,
              attribute |-> IF value \in KnownValues(field)
                            THEN KnownAttribute(field, value)
                            ELSE UnknownAttribute(field),
              result |-> Return(None)]
    /\ UNCHANGED outsideEnum

(* mqtt_client.py lines 481-498: a field of a charging event is read. The test
   'value in SkodaChargeMode' of line 484 applies 'in' to a string and an Enum
   class: a TypeError before Python 3.12, a test of the values from 3.12 on *)
ReadEventField(field, value, before_3_12) ==
    /\ en.pc = "idle"
    /\ field \in EventEnumFields
    /\ (field = "event.state") => ~before_3_12
    /\ en' = IF field = "event.mode" /\ before_3_12
             THEN [pc |-> "done", field |-> field, value |-> value, attribute |-> "unset",
                   result |-> Raise("TypeError")]
             ELSE [pc |-> "done", field |-> field, value |-> value,
                   attribute |-> IF value \in KnownValues(field)
                                 THEN KnownAttribute(field, value)
                                 ELSE UnknownAttribute(field),
                   result |-> Return(None)]
    /\ UNCHANGED outsideEnum

(* the fetch or the message handler goes on *)
ReadFieldReturn ==
    /\ en.pc = "done"
    /\ en' = [pc |-> "idle"]
    /\ UNCHANGED outsideEnum

----------------------------------------------------------------------------
(* The command hooks of the connector *)

Hooks ==
    {"lock_unlock", "air_conditioning_start_stop", "charging_start_stop",
     "window_heating_start_stop", "honk_flash", "wake_sleep", "spin"}

(* the 'command' entry of the arguments: missing, the first or the second
   member of the hook's Command enum, or another value *)
CommandEntries == {"missing", "first", "second", "other"}

(* the 'target_temperature' entry: missing, a number, or a string *)
TemperatureEntries == {"absent", "number", "text"}

(* command_arguments: something that is no dictionary, or a dictionary with or
   without 'command', 'spin' and 'target_temperature' *)
NotADict == [dict |-> FALSE, command |-> "missing", spin |-> FALSE, temperature |-> "absent"]

ArgumentsOf(hook) ==
    {NotADict} \cup
    {[dict |-> TRUE, command |-> c, spin |-> sp, temperature |-> t] :
        c \in CommandEntries,
        sp \in IF hook \in {"lock_unlock", "spin"} THEN BOOLEAN ELSE {FALSE},
        t \in IF hook = "air_conditioning_start_stop" THEN TemperatureEntries ELSE {"absent"}}

(* active_config['spin']: none, the empty string, or an S-PIN *)
SpinConfigs == {None, "", "1234"}

(* the configurations and positions that matter to a hook *)
SpinConfigsOf(hook) == IF hook \in {"lock_unlock", "spin"} THEN SpinConfigs ELSE {None}

PositionsOf(hook) == IF hook = "honk_flash" THEN BOOLEAN ELSE {TRUE}

(* the status a hook takes for success: 'ok' for spin, 'accepted' otherwise *)
HTTP_ACCEPTED == 202

ExpectedStatus(hook) == IF hook = "spin" THEN HTTP_OK ELSE HTTP_ACCEPTED

CommandStatuses == {HTTP_OK, HTTP_ACCEPTED, HTTP_SERVER_ERROR}

(* the commands of a hook that lead to a POST: LOCK/UNLOCK, START/STOP,
   FLASH/HONK_AND_FLASH, WAKE, VERIFY *)
PostingCommands(hook) ==
    CASE hook \in {"wake_sleep", "spin"} -> {"first"}
      [] OTHER -> {"first", "second"}

(* lines 1757 and 1711, 1597, 1674, 1801, 1833, 1873: the error raised for
   arguments that are no dictionary *)
NotADictError(hook) == IF hook = "lock_unlock" THEN "SetterError" ELSE "CommandError"

(* lock/unlock with the S-PIN tested as in __on_spin: lines 1836-1837 before
   the arguments are looked at *)
MissingSpin_configOnly(hook, arguments, spin_config) ==
    hook \in {"lock_unlock", "spin"} /\ spin_config = None

(* lines 1765-1770 and 1836-1843: the S-PIN the command needs is missing *)
MissingSpin(hook, arguments, spin_config) ==
    CASE hook = "lock_unlock" -> ~arguments.spin /\ spin_config = None
      [] hook = "spin" -> spin_config = None \/ (~arguments.spin /\ spin_config = "")
      [] OTHER -> FALSE

(* what a hook does before its POST: the result it ends with, or "post" *)
BeforePost(hook, arguments, spin_config, position_known) ==
    IF ~arguments.dict THEN Raise(NotADictError(hook))
    ELSE IF arguments.command = "missing" THEN Raise("CommandError")
    ELSE IF MissingSpin(hook, arguments, spin_config) THEN Raise("CommandError")
    ELSE IF arguments.command \notin PostingCommands(hook) THEN Raise("CommandError")
    ELSE IF hook = "honk_flash" /\ ~position_known THEN Raise("CommandError")
    ELSE IF hook = "air_conditioning_start_stop" /\ arguments.command = "first"
            /\ arguments.temperature = "text"
         THEN Raise("TypeError")
    ELSE [kind |-> "post"]

(* the hook is called: lines 1594-1605, 1670-1680, 1708-1728, 1753-1776,
   1797-1807, 1831-1847, 1869-1879 *)
CommandCall(hook, arguments, spin_config, position_known) ==
    /\ cm.pc = "idle"
    /\ LET before == BeforePost(hook, arguments, spin_config, position_known)
       IN cm' = [pc |-> IF before.kind = "post" THEN "post" ELSE "done",
                 hook |-> hook, arguments |-> arguments, spin_config |-> spin_config,
                 position_known |-> position_known, posts |-> 0, status |-> NoneNum,
                 result |-> IF before.kind = "post" THEN NoResult ELSE before]
    /\ UNCHANGED outsideCommand

(* session.post answers: any status but the expected one is a CommandError *)
CommandPostResponse(status) ==
    /\ cm.pc = "post"
    /\ cm' = [cm EXCEPT !.pc = "done", !.posts = @ + 1, !.status = status,
                        !.result = IF status = ExpectedStatus(cm.hook)
                                   THEN Return(None) ELSE Raise("CommandError")]
    /\ UNCHANGED outsideCommand

(* the except clauses of a hook: line 1742 raises SetterError for a
   chunked-encoding error of honk_flash *)
TransportErrorOf(hook, exc) ==
    IF hook = "honk_flash" /\ exc = "requests.ChunkedEncodingError"
    THEN "SetterError" ELSE "CommandError"

(* session.post raises a transport exception *)
CommandPostFails(exc) ==
    /\ cm.pc = "post"
    /\ cm' = [cm EXCEPT !.pc = "done", !.posts = @ + 1, !.status = Raised,
                        !.result = Raise(TransportErrorOf(cm.hook, exc))]
    /\ UNCHANGED outsideCommand

(* the caller receives the result *)
CommandReturn ==
    /\ cm.pc = "done"
    /\ cm' = [pc |-> "idle"]
    /\ UNCHANGED outsideCommand

----------------------------------------------------------------------------
(* A token refresh inside a GET of _fetch_data: session.get finds the access
   token expired and calls refresh() before it sends the request *)

(* what a step of the refresh inside a GET leaves alone *)
outsidePoll == <<cache, now, max_age, ft, pb, loopVars, feedVars, subVars, _password, pq,
                 shutVars, promoteVars, en, cm, sm, ct, loginVars>>

(* line 1444 -> my_skoda_session.py line 77: the GET starts with a refresh *)
PollGetExpired ==
    /\ fd.pc = "get"
    /\ expired
    /\ RefreshCall(SessionRefreshUrl, NoneNum)

(* lines 1444-1467: the request is sent with a token that is not expired *)
PollGetResponse(status, body) ==
    /\ rt.pc = "idle"
    /\ ~expired
    /\ FetchGetResponse(status, body)

(* line 1444: the request sent with a token that is not expired raises *)
PollGetFails(exc) ==
    /\ rt.pc = "idle"
    /\ ~expired
    /\ FetchGetFails(exc)

(* the exception of the refresh leaves session.get as it is, past the except
   clauses of lines 1468-1481 *)
PollGetRefreshed_outsideTry ==
    /\ fd.pc = "get"
    /\ rt.pc = "done"
    /\ rt' = [pc |-> "idle"]
    /\ IF rt.result.kind = "raise"
       THEN /\ FinishGet(Raise(rt.result.exc), Raised)
            /\ UNCHANGED expired
       ELSE /\ expired' = FALSE
            /\ UNCHANGED fd
    /\ UNCHANGED <<token, outsidePoll>>

(* line 1444 inside the try of lines 1443-1481: the refresh returns and the
   request is sent, or its exception leaves session.get *)
PollGetRefreshed ==
    /\ fd.pc = "get"
    /\ rt.pc = "done"
    /\ rt' = [pc |-> "idle"]
    /\ IF rt.result.kind = "raise"
       THEN /\ FinishGet(FetchExcept(rt.result.exc, fd.allow_empty), Raised)
            /\ UNCHANGED expired
       ELSE /\ expired' = FALSE
            /\ UNCHANGED fd
    /\ UNCHANGED <<token, outsidePoll>>

----------------------------------------------------------------------------
(* Connector.__init__: the interval of the configuration, the session, the
   first refresh *)

(* line 142: the smallest interval the constructor accepts *)
MinimumInterval == 180

(* config['interval']: missing, or a number of seconds *)
ConfigIntervals == {NoneNum, 60, 180, 300}

(* what session.refresh() of line 160 ends with *)
ConstructRefreshOutcomes == {"ok", "AuthenticationError", "TemporaryAuthenticationError"}

CtNew == [pc |-> "new", config_interval |-> NoneNum, session |-> FALSE, error |-> None]

(* lines 139-147 without the test of lines 142-143 *)
ConstructInterval_noFloor(config_interval) ==
    /\ ct.pc = "new"
    /\ main = "new"
    /\ interval_value' = IF config_interval = NoneNum THEN DefaultInterval
                         ELSE config_interval
    /\ ct' = [ct EXCEPT !.pc = "credentials", !.config_interval = config_interval]
    /\ UNCHANGED <<main, outsideConstruct>>

(* lines 139-147: the interval of the configuration, 300 s if it has none; a
   value below 180 s raises ValueError *)
ConstructInterval(config_interval) ==
    /\ ct.pc = "new"
    /\ main = "new"
    /\ IF config_interval # NoneNum /\ config_interval < MinimumInterval
       THEN /\ ct' = [ct EXCEPT !.pc = "failed", !.config_interval = config_interval,
                                !.error = "ValueError"]
            /\ main' = "failed"
            /\ UNCHANGED interval_value
       ELSE /\ interval_value' = IF config_interval = NoneNum THEN DefaultInterval
                                 ELSE config_interval
            /\ ct' = [ct EXCEPT !.pc = "credentials", !.config_interval = config_interval]
            /\ UNCHANGED main
    /\ UNCHANGED outsideConstruct

(* lines 149-158: without username or password the constructor raises;
   otherwise the manager is built and get_session creates the session *)
ConstructSession(provided) ==
    /\ ct.pc = "credentials"
    /\ IF provided
       THEN /\ ct' = [ct EXCEPT !.pc = "refresh", !.session = TRUE]
            /\ UNCHANGED main
       ELSE /\ ct' = [ct EXCEPT !.pc = "failed", !.error = "AuthenticationError"]
            /\ main' = "failed"
    /\ UNCHANGED <<interval_value, outsideConstruct>>

(* lines 159-162: session.refresh(); the constructor returns or the error of
   the refresh leaves it *)
ConstructRefresh(outcome) ==
    /\ ct.pc = "refresh"
    /\ IF outcome = "ok"
       THEN /\ ct' = [pc |-> "constructed"]
            /\ main' = "constructed"
       ELSE /\ ct' = [ct EXCEPT !.pc = "failed", !.error = outcome]
            /\ main' = "failed"
    /\ UNCHANGED <<interval_value, outsideConstruct>>

----------------------------------------------------------------------------
(* The session manager: sessions created from and persisted to the token
   store and the cache of the host *)

(* the SessionUser objects of the runs: e-mail addresses without a colon as
   usernames, passwords with and without a colon; strings are sequences *)
Users == {"u1", "u2"}

Credentials(user) ==
    IF user = "u1" THEN [username |-> <<"a">>, password |-> <<"b", ":", "c">>]
    ELSE [username |-> <<"a">>, password |-> <<"c">>]

MY_SKODA == <<"MySkoda">>

(* SessionUser.__str__ *)
UserStr(user) == Credentials(user).username \o <<":">> \o Credentials(user).password

(* sha512(...).hexdigest(): a digest that differs for different strings *)
generate_hash(service, user) == [sha512 |-> service \o UserStr(user)]

generate_identifier(service, user) ==
    [prefix |-> "CarConnectivity-connector-skoda:", hash |-> generate_hash(service, user)]

Identifiers == {generate_identifier(MY_SKODA, user) : user \in Users}

EmptyDict == "{}"

(* what a session can hold: a token bundle or none, metadata, a response cache *)
SessionContents ==
    {[token |-> None, metadata |-> EmptyDict, cache |-> EmptyDict],
     [token |-> None, metadata |-> "m1", cache |-> "c1"],
     [token |-> "t1", metadata |-> "m1", cache |-> EmptyDict],
     [token |-> "t1", metadata |-> EmptyDict, cache |-> "c1"],
     [token |-> "t2", metadata |-> "m1", cache |-> "c1"]}

NoSession == [live |-> FALSE, token |-> None, metadata |-> EmptyDict, cache |-> EmptyDict,
              fresh |-> FALSE]

(* an identifier without an entry in the token store, or in the cache *)
NoStored == [has |-> FALSE, token |-> None, metadata |-> EmptyDict]

NoCached == [has |-> FALSE, cache |-> EmptyDict]

SmEmpty == [tokenstore |-> [i \in Identifiers |-> NoStored],
            cache |-> [i \in Identifiers |-> NoCached],
            sessions |-> [u \in Users |-> NoSession],
            previous |-> [u \in Users |-> NoSession],
            stored_before |-> [i \in Identifiers |-> NoStored],
            cached_before |-> [i \in Identifiers |-> NoCached],
            runs |-> 1, last |-> "init"]

(* lines 55-71: the session built for an identifier from the two stores *)
SessionFromStore(identifier) ==
    [live |-> TRUE,
     token |-> IF sm.tokenstore[identifier].has THEN sm.tokenstore[identifier].token ELSE None,
     metadata |-> IF sm.tokenstore[identifier].has
                  THEN sm.tokenstore[identifier].metadata ELSE EmptyDict,
     cache |-> IF sm.cache[identifier].has THEN sm.cache[identifier].cache ELSE EmptyDict,
     fresh |-> TRUE]

(* lines 51-73: get_session returns the session of the pair if the manager has
   one, and builds it from the stores otherwise *)
ManagerGetSession(service, user) ==
    /\ sm' = [sm EXCEPT
                !.sessions[user] = IF sm.sessions[user].live THEN @
                                   ELSE SessionFromStore(generate_identifier(service, user)),
                !.last = IF sm.sessions[user].live THEN "reused" ELSE "created"]
    /\ UNCHANGED outsideManager

(* the session logs in, refreshes, or caches an answer *)
SessionActivity(user, content) ==
    /\ sm.sessions[user].live
    /\ sm' = [sm EXCEPT
                !.sessions[user] = [live |-> TRUE, token |-> content.token,
                                    metadata |-> content.metadata,
                                    cache |-> content.cache, fresh |-> FALSE],
                !.last = "activity"]
    /\ sm.sessions[user] # sm'.sessions[user]
    /\ UNCHANGED outsideManager

(* persist that writes the entry of every session *)
PersistsSession_always(session) == session.live

(* line 77: the sessions persist writes *)
PersistsSession(session) == session.live /\ session.token # None

(* the users whose sessions persist writes under the identifier *)
PersistedUsers(identifier) ==
    {u \in Users : /\ PersistsSession(sm.sessions[u])
                   /\ generate_identifier(MY_SKODA, u) = identifier}

(* lines 75-82: persist *)
ManagerPersist ==
    /\ sm' = [sm EXCEPT
                !.tokenstore = [i \in Identifiers |->
                    IF PersistedUsers(i) = {} THEN sm.tokenstore[i]
                    ELSE LET u == CHOOSE u \in PersistedUsers(i) : TRUE
                         IN [has |-> TRUE, token |-> sm.sessions[u].token,
                             metadata |-> sm.sessions[u].metadata]],
                !.cache = [i \in Identifiers |->
                    IF PersistedUsers(i) = {} THEN sm.cache[i]
                    ELSE LET u == CHOOSE u \in PersistedUsers(i) : TRUE
                         IN [has |-> TRUE, cache |-> sm.sessions[u].cache]],
                !.previous = sm.sessions,
                !.stored_before = sm.tokenstore,
                !.cached_before = sm.cache,
                !.last = "persist"]
    /\ UNCHANGED outsideManager

(* lines 37-40: the next run builds a manager over the same token store and cache *)
ManagerRebuilt ==
    /\ sm.runs < MaxRuns
    /\ sm' = [sm EXCEPT !.sessions = [u \in Users |-> NoSession],
                        !.runs = @ + 1, !.last = "rebuilt"]
    /\ UNCHANGED outsideManager

----------------------------------------------------------------------------
(* Frames of the parts that are at rest *)

(* no connection, no subscription, no handler running *)
SubOff ==
    /\ subscribed_topics = {}
    /\ observer = FALSE
    /\ user_id = None
    /\ broker = [t \in AllTopics |-> 0]
    /\ sub = [th \in SubThreads |-> SubIdle]

PqIdle == [pc |-> "idle"]

PrIdle == [pc |-> "idle"]

EnIdle == [pc |-> "idle"]

CmIdle == [pc |-> "idle"]

WaIdle == [pc |-> "idle"]

(* no thread is inside a login *)
LgOff == [t \in {"background", "mqtt"} |-> "out"]

(* the constructor has returned *)
CtConstructed == [pc |-> "constructed"]

(* no connect attempt of the feed under way *)
PreOff ==
    /\ _password = NoneNum
    /\ expired = FALSE
    /\ pq = PqIdle

(* nothing outside the polling, the feed and the subscriptions has happened *)
RestOff ==
    /\ PreOff
    /\ session_closed = FALSE
    /\ persisted = FALSE
    /\ pr = PrIdle
    /\ en = EnIdle
    /\ cm = CmIdle
    /\ sm = SmEmpty
    /\ ct = CtConstructed
    /\ wa = WaIdle
    /\ lg = LgOff

RtIdle == [pc |-> "idle"]

FtIdle == [pc |-> "idle"]

(* the feed before any message: no timers, an empty garage *)
FeedOff ==
    /\ garage = [v \in Vins |-> NoVehicle]
    /\ msg = MsgIdle
    /\ delayed_access_function_timers = [v \in Vins |-> NoTimer]
    /\ tm = [i \in TimerIds |-> UnusedTimer]
    /\ access = [v \in Vins |-> [windows |-> 0, fetches |-> 0]]

PbIdle == [pc |-> "idle"]

ThreadsOff ==
    /\ connection_state = "DISCONNECTED"
    /\ rest_connected = FALSE
    /\ mqtt_connected = FALSE
    /\ healthy = FALSE
    /\ stop_event = FALSE
    /\ bg = BgUnstarted
    /\ mq = [pc |-> "unstarted", link |-> "down", was_up |-> FALSE, seen_rest |-> FALSE]
    /\ cn = [pc |-> "unstarted"]
    /\ main = "constructed"

----------------------------------------------------------------------------
(* Specification of _fetch_data: calls in sequence on one session, with every
   argument combination, every answer of the server and a moving clock *)

InitFetch ==
    /\ cache = [u \in Urls |-> NoEntry]
    /\ now = 0
    /\ max_age \in MaxAges
    /\ token = FreshToken(NoToken)
    /\ fd = FdIdle
    /\ rt = RtIdle
    /\ ft = FtIdle
    /\ pb = PbIdle
    /\ FeedOff
    /\ SubOff
    /\ RestOff
    /\ interval_value = DefaultInterval
    /\ ThreadsOff

NextFetch ==
    \/ \E url \in Urls, no_cache \in BOOLEAN, allow_empty \in BOOLEAN,
          allow_http_error \in BOOLEAN, allowed_errors \in AllowedErrorsArgs :
            FetchCall(url, no_cache, allow_empty, allow_http_error, allowed_errors)
    \/ \E status \in Statuses, body \in Bodies : FetchGetResponse(status, body)
    \/ \E exc \in TransportErrors : FetchGetFails(exc)
    \/ \E outcome \in LoginOutcomes : FetchLogin(outcome)
    \/ \E status \in Statuses, body \in Bodies : FetchRetryResponse(status, body)
    \/ \E exc \in TransportErrors : FetchRetryFails(exc)
    \/ FetchReturn
    \/ Tick

SpecFetch == InitFetch /\ [][NextFetch]_vars

----------------------------------------------------------------------------
(* Specification of the connector's threads: the background loop, the MQTT
   network thread, the connect loop and the host calling startup/shutdown *)

Init ==
    /\ cache = [u \in Urls |-> NoEntry]
    /\ now = 0
    /\ max_age = 1
    /\ token = FreshToken(NoToken)
    /\ fd = FdIdle
    /\ rt = RtIdle
    /\ ft = FtIdle
    /\ pb = PbIdle
    /\ FeedOff
    /\ SubOff
    /\ RestOff
    /\ interval_value \in Intervals
    /\ ThreadsOff

Next ==
    \/ StartupBackground
    \/ StartupConnect
    \/ StartupMqtt
    \/ StartupHealthy
    \/ \E v \in Intervals : SetInterval(v)
    \/ ShutdownDisconnect
    \/ ShutdownLoopStop
    \/ ShutdownSignalStop
    \/ ShutdownJoinBackground
    \/ ShutdownSessionClose
    \/ ShutdownJoinConnect
    \/ ShutdownPersist
    \/ BgClear
    \/ BgInit
    \/ BgWhile
    \/ \E outcome \in {"ok"} \cup IterationErrors : BgIterate(outcome)
    \/ \E status \in LoginPageStatuses : BgIterateLoginPage(status)
    \/ BgHandleState
    \/ BgHandleRest
    \/ BgFatalState
    \/ BgFatalRest
    \/ BgFatalRaise
    \/ BgSuccessRest
    \/ BgSuccessCheck
    \/ BgSuccessState
    \/ BgWake
    \/ BgExitState
    \/ BgExitRest
    \/ \E reason_code \in {0, 134} : OnConnectBegin(reason_code)
    \/ OnConnectState
    \/ OnConnectMqtt
    \/ OnDisconnectState
    \/ OnDisconnectMqtt
    \/ MqReconnect
    \/ CnWhile
    \/ CnConnectState
    \/ \E outcome \in ConnectOutcomes : CnConnectResult(outcome)
    \/ CnWake

Spec == Init /\ [][Next]_vars

----------------------------------------------------------------------------
(* Specification of refresh_tokens: calls in sequence on one session that
   starts with any token bundle, with every answer of the token endpoint *)

InitialTokens ==
    {NoToken, [access_token |-> 1, refresh_token |-> 1],
     [access_token |-> 1, refresh_token |-> NoneNum]}

InitRefresh ==
    /\ cache = [u \in Urls |-> NoEntry]
    /\ now = 0
    /\ max_age = 1
    /\ token \in InitialTokens
    /\ fd = FdIdle
    /\ rt = RtIdle
    /\ ft = FtIdle
    /\ pb = PbIdle
    /\ FeedOff
    /\ SubOff
    /\ RestOff
    /\ interval_value = DefaultInterval
    /\ ThreadsOff

NextRefresh ==
    \/ \E token_url \in TokenUrls, refresh_token_arg \in {NoneNum, PassedRefreshToken} :
            RefreshCall(token_url, refresh_token_arg)
    \/ \E status \in RefreshStatuses, body \in RefreshBodies : RefreshPostResponse(status, body)
    \/ \E exc \in PostErrors : RefreshPostFails(exc)
    \/ \E outcome \in LoginOutcomes : RefreshLogin(outcome)
    \/ RefreshReturn
    \/ \E token_url \in TokenUrls, authorization_response \in AuthorizationResponses :
            FetchTokensCall(token_url, authorization_response)
    \/ \E status \in RefreshStatuses, body \in RefreshBodies : FetchTokensPostResponse(status, body)
    \/ \E exc \in PostErrors : FetchTokensPostFails(exc)
    \/ FetchTokensReturn

SpecRefresh == InitRefresh /\ [][NextRefresh]_vars

----------------------------------------------------------------------------
(* Specifications of the MQTT message handling: the network thread runs the
   callback for one message at a time, the debounce timers run in threads of
   their own, the garage holds the vehicles fetch_vehicles put there.
   SpecMessages delivers the messages handled within the callback,
   SpecDebounce the access events and runs their timers. *)

(* the garages the messages meet *)
Garages ==
    {[v \in Vins |-> IF v = "VIN1" THEN first ELSE second] :
        first \in {Vehicle("SkodaElectricVehicle", TRUE, caps, None) :
                        caps \in {{}, {"CHARGING"}}}
                  \cup {Vehicle("SkodaElectricVehicle", FALSE, {}, None)},
        second \in {NoVehicle,
                    Vehicle("SkodaHybridVehicle", TRUE, {"PARKING_POSITION"}, None)}}

InitMessages ==
    /\ cache = [u \in Urls |-> NoEntry]
    /\ now = 0
    /\ max_age = 1
    /\ token = FreshToken(NoToken)
    /\ fd = FdIdle
    /\ rt = RtIdle
    /\ ft = FtIdle
    /\ pb = PbIdle
    /\ interval_value = DefaultInterval
    /\ ThreadsOff
    /\ garage \in Garages
    /\ msg = MsgIdle
    /\ delayed_access_function_timers = [v \in Vins |-> NoTimer]
    /\ tm = [i \in TimerIds |-> UnusedTimer]
    /\ access = [v \in Vins |-> [windows |-> 0, fetches |-> 0]]
    /\ SubOff
    /\ RestOff

NextMessages ==
    \/ \E message \in DirectMessages : MsgBegin(message.topic, message.payload)
    \/ \E outcome \in RefetchOutcomes, charging_state \in RestChargingStates,
          climatization_state \in RestClimatizationStates :
            MsgRefetch(outcome, charging_state, climatization_state)
    \/ MsgReturn

NextDebounce ==
    \/ \E message \in AccessMessages : MsgBegin(message.topic, message.payload)
    \/ MsgAccessCheck
    \/ MsgAccessCancel
    \/ MsgAccessStore
    \/ MsgAccessStart
    \/ MsgReturn
    \/ \E timer \in TimerIds : TimerExpire(timer)
    \/ \E timer \in TimerIds : TimerPop(timer)
    \/ \E timer \in TimerIds, outcome \in RefetchOutcomes,
          charging_state \in RestChargingStates,
          climatization_state \in RestClimatizationStates :
            TimerRefetch(timer, outcome, charging_state, climatization_state)

SpecMessages == InitMessages /\ [][NextMessages]_vars

SpecDebounce == InitMessages /\ [][NextDebounce]_vars

----------------------------------------------------------------------------
(* Specification of the topic subscriptions: connects and disconnects on the
   network thread, vehicles enabled and disabled on the garage's thread *)

ReasonCodes == {0, 135}

InitSubscribe == InitRefresh /\ token = NoToken

NextSubscribe ==
    \/ \E reason_code \in ReasonCodes : SubOnConnect(reason_code)
    \/ SubListVehicles
    \/ SubNextVehicle
    \/ \E th \in SubThreads, fetched \in {None, "user"} : SubscribeVehicleBegin(th, fetched)
    \/ \E th \in SubThreads : SubscribeTopicCheck(th)
    \/ \E th \in SubThreads : SubscribeTopic(th)
    \/ SubOnDisconnect
    \/ \E vin \in Vins : VehicleEnabled(vin)
    \/ \E vin \in Vins : VehicleDisabled(vin)
    \/ \E th \in SubThreads : SubReturn(th)

SpecSubscribe == InitSubscribe /\ [][NextSubscribe]_vars

----------------------------------------------------------------------------
(* Specification of the pre-connect hook: connect attempts in sequence on one
   session that starts with any token bundle, expired or not *)

InitPreConnect ==
    /\ cache = [u \in Urls |-> NoEntry]
    /\ now = 0
    /\ max_age = 1
    /\ token \in InitialTokens
    /\ fd = FdIdle
    /\ rt = RtIdle
    /\ ft = FtIdle
    /\ pb = PbIdle
    /\ FeedOff
    /\ SubOff
    /\ _password = NoneNum
    /\ expired \in BOOLEAN
    /\ pq = PqIdle
    /\ session_closed = FALSE
    /\ persisted = FALSE
    /\ pr = PrIdle
    /\ en = EnIdle
    /\ cm = CmIdle
    /\ sm = SmEmpty
    /\ ct = CtConstructed
    /\ wa = WaIdle
    /\ lg = LgOff
    /\ interval_value = DefaultInterval
    /\ ThreadsOff

NextPreConnect ==
    \/ PreConnectBegin
    \/ PreConnectRefreshCall
    \/ \E status \in RefreshStatuses, body \in RefreshBodies : RefreshPostResponse(status, body)
    \/ \E exc \in PostErrors : RefreshPostFails(exc)
    \/ \E outcome \in LoginOutcomes : RefreshLogin(outcome)
    \/ PreConnectLoginWithoutCode
    \/ PreConnectRefreshed
    \/ PreConnectSet
    \/ PreConnectReturn
    \/ Expire

SpecPreConnect == InitPreConnect /\ [][NextPreConnect]_vars

----------------------------------------------------------------------------
(* Specification of the promotion: driving-range answers in sequence for the
   vehicles of a garage *)

(* the garages the answers meet: one or two vehicles of any class *)
PromoteGarages ==
    {[v \in Vins |-> IF v = "VIN1" THEN first ELSE second] :
        first \in {VehicleObject(0, kind, caps, in_motion) :
                        kind \in SkodaClasses, caps \in {{}, {"CHARGING"}},
                        in_motion \in {None, "True"}},
        second \in {NoVehicle, VehicleObject(0, "SkodaVehicle", {"PARKING_POSITION"}, "False")}}

InitPromote ==
    /\ cache = [u \in Urls |-> NoEntry]
    /\ now = 0
    /\ max_age = 1
    /\ token = NoToken
    /\ fd = FdIdle
    /\ rt = RtIdle
    /\ ft = FtIdle
    /\ pb = PbIdle
    /\ garage \in PromoteGarages
    /\ msg = MsgIdle
    /\ delayed_access_function_timers = [v \in Vins |-> NoTimer]
    /\ tm = [i \in TimerIds |-> UnusedTimer]
    /\ access = [v \in Vins |-> [windows |-> 0, fetches |-> 0]]
    /\ SubOff
    /\ RestOff
    /\ interval_value = DefaultInterval
    /\ ThreadsOff

NextPromote ==
    \/ \E vin \in Vins, range_data \in RangeAnswers : FetchDrivingRange(vin, range_data)
    \/ FetchDrivingRangeReturn

SpecPromote == InitPromote /\ [][NextPromote]_vars

----------------------------------------------------------------------------
(* Specification of the enum-like fields: every field with every string the
   code knows and with one it does not know *)

InitEnums == InitRefresh /\ token = NoToken

NextEnums ==
    \/ \E field \in RestEnumFields : \E value \in FieldValues(field) :
            ReadRestField(field, value)
    \/ \E field \in EventEnumFields : \E value \in FieldValues(field) :
            \E before_3_12 \in BOOLEAN : ReadEventField(field, value, before_3_12)
    \/ ReadFieldReturn

SpecEnums == InitEnums /\ [][NextEnums]_vars

----------------------------------------------------------------------------
(* Specification of the command hooks: commands in sequence, with every shape
   of the arguments and every answer of the server *)

InitCommands == InitRefresh /\ token = NoToken

NextCommands ==
    \/ \E hook \in Hooks :
            \E arguments \in ArgumentsOf(hook), spin_config \in SpinConfigsOf(hook),
               position_known \in PositionsOf(hook) :
                CommandCall(hook, arguments, spin_config, position_known)
    \/ \E status \in CommandStatuses : CommandPostResponse(status)
    \/ \E exc \in WrappedTransportErrors : CommandPostFails(exc)
    \/ CommandReturn

SpecCommands == InitCommands /\ [][NextCommands]_vars

----------------------------------------------------------------------------
(* Specification of the requests of a poll: calls of _fetch_data in sequence
   on one session whose token expires, with every answer and every failure of
   the GET, of the login after a 401 and of the refresh *)

InitPoll == InitFetch /\ max_age = NoneNum

NextPoll ==
    \/ \E url \in Urls, no_cache \in BOOLEAN, allow_empty \in BOOLEAN,
          allow_http_error \in BOOLEAN, allowed_errors \in AllowedErrorsArgs :
            FetchCall(url, no_cache, allow_empty, allow_http_error, allowed_errors)
    \/ Expire
    \/ PollGetExpired
    \/ \E status \in RefreshStatuses, body \in RefreshBodies : RefreshPostResponse(status, body)
    \/ \E exc \in PostErrors : RefreshPostFails(exc)
    \/ \E outcome \in LoginOutcomes : RefreshLogin(outcome)
    \/ PollGetRefreshed
    \/ \E status \in Statuses, body \in Bodies : PollGetResponse(status, body)
    \/ \E exc \in TransportErrors : PollGetFails(exc)
    \/ \E outcome \in LoginOutcomes : FetchLogin(outcome)
    \/ \E status \in Statuses, body \in Bodies : FetchRetryResponse(status, body)
    \/ \E exc \in TransportErrors : FetchRetryFails(exc)
    \/ FetchReturn

SpecPoll == InitPoll /\ [][NextPoll]_vars

----------------------------------------------------------------------------
(* Specification of the connector from its construction on: the constructor
   with every interval of the configuration, then the threads of the connector *)

InitConstruct ==
    /\ cache = [u \in Urls |-> NoEntry]
    /\ now = 0
    /\ max_age = 1
    /\ token = FreshToken(NoToken)
    /\ fd = FdIdle
    /\ rt = RtIdle
    /\ ft = FtIdle
    /\ pb = PbIdle
    /\ FeedOff
    /\ SubOff
    /\ PreOff
    /\ session_closed = FALSE
    /\ persisted = FALSE
    /\ pr = PrIdle
    /\ en = EnIdle
    /\ cm = CmIdle
    /\ sm = SmEmpty
    /\ ct = CtNew
    /\ wa = WaIdle
    /\ lg = LgOff
    /\ interval_value = NoneNum
    /\ connection_state = "DISCONNECTED"
    /\ rest_connected = FALSE
    /\ mqtt_connected = FALSE
    /\ healthy = FALSE
    /\ stop_event = FALSE
    /\ bg = BgUnstarted
    /\ mq = [pc |-> "unstarted", link |-> "down", was_up |-> FALSE, seen_rest |-> FALSE]
    /\ cn = [pc |-> "unstarted"]
    /\ main = "new"

NextConstruct ==
    \/ \E config_interval \in ConfigIntervals : ConstructInterval(config_interval)
    \/ \E provided \in BOOLEAN : ConstructSession(provided)
    \/ \E outcome \in ConstructRefreshOutcomes : ConstructRefresh(outcome)
    \/ Next

SpecConstruct == InitConstruct /\ [][NextConstruct]_vars

----------------------------------------------------------------------------
(* Specification of the session manager: runs in sequence over one token store
   and one cache *)

InitManager == InitRefresh /\ token = NoToken

NextManager ==
    \/ \E user \in Users : ManagerGetSession(MY_SKODA, user)
    \/ \E user \in Users, content \in SessionContents : SessionActivity(user, content)
    \/ ManagerPersist
    \/ ManagerRebuilt

SpecManager == InitManager /\ [][NextManager]_vars

----------------------------------------------------------------------------
(* Specification of parse_from_body: calls in sequence, every token answer *)

InitParse == InitRefresh /\ token = NoToken

NextParse ==
    \/ \E token_response \in TokenResponses : ParseFromBody(token_response)
    \/ ParseReturn

SpecParse == InitParse /\ [][NextParse]_vars

----------------------------------------------------------------------------
(* Properties of _fetch_data, stated on the frame of a finished call *)

OkStatuses == {HTTP_OK, HTTP_MULTI_STATUS}

FdDone == fd.pc = "done"

(* at the call the cache held an entry for the URL younger than max_age *)
FreshEntryAtCall ==
    /\ fd.entry0 # NoEntry
    /\ max_age # NoneNum
    /\ fd.now0 - FromIsoFormat(fd.entry0[2]) < max_age

(* C1 as stated: a call with no_cache false that finds a cache entry younger
   than max_age issues no GET and returns the cached payload, and a call with
   no_cache true issues a GET however fresh the entry is. *)
C1_FreshEntryNeverFetched ==
    FdDone =>
        /\ (~fd.no_cache /\ FreshEntryAtCall) =>
               (fd.gets = 0 /\ fd.result = Return(fd.entry0[1]))
        /\ fd.no_cache => fd.gets >= 1

(* C1 amended: a call with no_cache false that finds a cache entry younger than
   max_age whose payload is not None (JSON null) issues no GET and returns the
   cached payload; a call with no_cache true always issues a GET. *)
C1_FreshNonNullEntryNeverFetched ==
    FdDone =>
        /\ (~fd.no_cache /\ FreshEntryAtCall /\ fd.entry0[1] # None) =>
               (fd.gets = 0 /\ fd.result = Return(fd.entry0[1]))
        /\ fd.no_cache => fd.gets >= 1

(* a call served from a fresh entry that was cached at an earlier tick *)
C1_Witness_ServedFromCache ==
    /\ FdDone
    /\ ~fd.no_cache
    /\ FreshEntryAtCall
    /\ fd.entry0[1] \in Payloads
    /\ fd.gets = 0
    /\ fd.result = Return(fd.entry0[1])

(* C2 as stated: every 429 answer, to the first GET or to the retry after a
   401, makes _fetch_data raise TooManyRequestsError. *)
C2_Every429RaisesTooManyRequests ==
    (FdDone /\ (fd.status1 = HTTP_TOO_MANY_REQUESTS \/ fd.status2 = HTTP_TOO_MANY_REQUESTS))
        => fd.result = Raise("TooManyRequestsError")

(* C3 as stated: after a 401 to the first GET there is exactly one login and
   exactly one retry GET; a 200/207 retry is returned and cached, any other
   retry raises RetrievalError (allow_http_error false) and leaves the cache. *)
C3_OneLoginOneRetry ==
    (FdDone /\ fd.status1 = HTTP_UNAUTHORIZED) =>
        /\ fd.logins = 1
        /\ fd.gets = 2
        /\ fd.status2 \in OkStatuses =>
               /\ fd.result = Return(Json(fd.body2))
               /\ cache[fd.url] # NoEntry
               /\ cache[fd.url][1] = Json(fd.body2)
        /\ (fd.status2 \notin OkStatuses /\ ~fd.allow_http_error) =>
               /\ fd.result = Raise("RetrievalError")
               /\ cache[fd.url] = fd.entry0

(* C3 amended: after a 401 to the first GET there is exactly one login
   attempt; the retry GET is issued exactly once when that login returns and
   not at all when it raises (the cache is then left as it was); a 200/207
   retry with a decodable JSON body is returned and cached; any other status
   (allow_http_error false) raises RetrievalError and leaves the cache. *)
C3_OneLoginThenOneRetry ==
    (FdDone /\ fd.status1 = HTTP_UNAUTHORIZED) =>
        /\ fd.logins = 1
        /\ fd.login = "ok" => fd.gets = 2
        /\ fd.login # "ok" =>
               /\ fd.gets = 1
               /\ fd.result.kind = "raise"
               /\ cache[fd.url] = fd.entry0
        /\ (fd.status2 \in OkStatuses /\ JsonDecodes(fd.body2)) =>
               /\ fd.result = Return(Json(fd.body2))
               /\ cache[fd.url] # NoEntry
               /\ cache[fd.url][1] = Json(fd.body2)
               /\ FromIsoFormat(cache[fd.url][2]) >= fd.now0
        /\ (fd.login = "ok" /\ fd.status2 \notin OkStatuses /\ ~fd.allow_http_error) =>
               /\ fd.result = Raise("RetrievalError")
               /\ cache[fd.url] = fd.entry0

(* a 401 followed by a successful retry replaced an older, different entry *)
C3_Witness_RetryRefreshesCache ==
    /\ FdDone
    /\ fd.status1 = HTTP_UNAUTHORIZED
    /\ fd.status2 = HTTP_OK
    /\ fd.body2 \in Payloads
    /\ fd.entry0 # NoEntry
    /\ fd.entry0[1] # fd.body2
    /\ cache[fd.url][1] = fd.body2
    /\ fd.logins = 1
    /\ fd.gets = 2

----------------------------------------------------------------------------
(* Properties of the background loop *)

(* the error kinds the loop recovers from *)
ClassifiedErrors ==
    {"TooManyRequestsError", "RetrievalError", "APIError", "APICompatibilityError",
     "TemporaryAuthenticationError"}

(* a step of the background thread away from position p *)
BgLeaves(p) == bg.pc = p /\ bg'.pc # p

(* C4: an iteration that raises a classified error makes the loop set
   connection_state to ERROR and rest_connected to false, wait 900 s for a
   rate-limit error and the configured interval for the other kinds, and
   then test the stop flag and run another iteration unless stop was
   signalled; the thread never ends because of a classified error. *)
C4_ClassifiedErrorRecovers ==
    [][ /\ (BgLeaves("try") /\ bg'.err \in ClassifiedErrors) =>
               (bg'.pc = "h_state" /\ bg'.interval = interval_value)
        /\ BgLeaves("h_state") =>
               (connection_state' = ERROR /\ bg'.pc = "h_rest")
        /\ BgLeaves("h_rest") =>
               /\ rest_connected' = FALSE
               /\ bg'.pc = "wait"
               /\ bg'.wait = IF bg.err = "TooManyRequestsError" THEN 900 ELSE bg.interval
        /\ (BgLeaves("wait") /\ bg.err \in ClassifiedErrors) => bg'.pc = "while"
        /\ (BgLeaves("while") /\ ~stop_event) => bg'.pc = "try"
        /\ (bg'.pc = "crashed" /\ bg.pc # "crashed") => bg.err \notin ClassifiedErrors
      ]_vars

(* the loop starts another iteration after the 900 s wait of a rate-limit error *)
C4_Witness_RetryAfterRateLimit ==
    /\ bg.pc = "try"
    /\ bg.err = "TooManyRequestsError"
    /\ bg.wait = RateLimitWait
    /\ connection_state = ERROR
    /\ ~rest_connected
    /\ ~stop_event

(* C5: an iteration that raises an exception outside the classified kinds
   makes the loop set connection_state to ERROR, rest_connected to false and
   healthy to false, re-raise, and perform no further step. *)
C5_UnclassifiedErrorIsFatal ==
    [][ /\ (BgLeaves("try") /\ bg'.err # None /\ bg'.err \notin ClassifiedErrors) =>
               bg'.pc = "f_state"
        /\ BgLeaves("f_state") =>
               (connection_state' = ERROR /\ bg'.pc = "f_rest")
        /\ BgLeaves("f_rest") =>
               (rest_connected' = FALSE /\ bg'.pc = "f_health")
        /\ BgLeaves("f_health") =>
               (healthy' = FALSE /\ bg'.pc = "crashed")
        /\ bg.pc = "crashed" => bg' = bg
      ]_vars

(* the thread has ended on an exception of no classified kind *)
C5_Witness_Crashed ==
    /\ bg.pc = "crashed"
    /\ bg.err = "KeyError"
    /\ bg.iter >= 2
    /\ connection_state = ERROR
    /\ ~rest_connected
    /\ ~healthy

(* C6: after an iteration without error the loop sets rest_connected to
   true, sets connection_state to CONNECTED exactly when it read
   mqtt_connected as true and otherwise does not write it, and waits the
   configured interval. *)
C6_SuccessMarksRestConnected ==
    [][ /\ (BgLeaves("try") /\ bg'.err = None) =>
               (bg'.pc = "s_rest" /\ bg'.interval = interval_value)
        /\ BgLeaves("s_rest") =>
               (rest_connected' = TRUE /\ bg'.pc = "s_check")
        /\ BgLeaves("s_check") =>
               /\ bg'.pc = "s_state"
               /\ bg'.seen_mqtt = mqtt_connected
               /\ connection_state' = connection_state
               /\ rest_connected' = TRUE
        /\ BgLeaves("s_state") =>
               /\ bg'.pc = "wait"
               /\ bg'.wait = bg.interval
               /\ rest_connected' = TRUE
               /\ connection_state' = IF bg.seen_mqtt THEN CONNECTED ELSE connection_state
      ]_vars

(* the loop waits after a successful iteration that found the feed connected *)
C6_Witness_ConnectedAfterSuccess ==
    /\ bg.pc = "wait"
    /\ bg.err = None
    /\ bg.wait = interval_value
    /\ rest_connected
    /\ mqtt_connected
    /\ connection_state = CONNECTED

(* neither the loop's result handling nor an MQTT callback is mid-execution *)
Quiescent ==
    /\ bg.pc \in {"unstarted", "clear", "init", "while", "try", "wait", "stopped", "crashed"}
    /\ mq.pc \in {"unstarted", "idle", "stopped"}

(* C7 as stated: whenever neither the loop's result handling nor an MQTT
   callback is mid-execution, connection_state = CONNECTED implies that
   mqtt_connected and rest_connected are both true. *)
C7_ConnectedImpliesBoth ==
    (Quiescent /\ connection_state = CONNECTED) => (mqtt_connected /\ rest_connected)

(* C8 as stated: when the loop exits because stop was signalled,
   connection_state is DISCONNECTED and rest_connected is false at exit. *)
C8_ExitLeavesDisconnected ==
    [][ (bg.pc = "x_rest" /\ bg'.pc = "stopped") =>
            (connection_state' = DISCONNECTED /\ rest_connected' = FALSE) ]_vars

(* C9 as stated: the first iteration runs fetch_all and every later
   iteration runs update_vehicles. *)
C9_FullFetchOnlyFirst ==
    [][ BgLeaves("try") => (bg'.op = "fetch_all" <=> bg'.iter = 1) ]_vars

(* C9 amended: an iteration runs fetch_all exactly when no earlier iteration
   completed without error (the full fetch is repeated until it succeeds
   once), and update_vehicles otherwise. *)
C9_FullFetchUntilSuccess ==
    [][ BgLeaves("try") => (bg'.op = "fetch_all" <=> ~bg.any_ok) ]_vars

(* a full fetch repeated in the third iteration, and an incremental pass
   after a successful one *)
C9_Witness_SecondFullFetch ==
    /\ bg.pc \in {"h_state", "s_rest"}
    /\ bg.iter = 3
    /\ bg.op = "fetch_all"
    /\ ~bg.prior_ok

----------------------------------------------------------------------------
(* Properties of refresh_tokens, stated on the frame of a finished call *)

RtDone == rt.pc = "done"

(* C10 as stated: a refresh whose POST is answered with 401 performs exactly
   one login() call and returns the session's token as it is after it. *)
C10_Refresh401ReturnsLoginToken ==
    (RtDone /\ rt.status = HTTP_UNAUTHORIZED) =>
        /\ rt.logins = 1
        /\ rt.result = Return(token)

(* C10 amended: a refresh whose POST is answered with 401 performs exactly
   one login() call; when that login returns, the call returns the session's
   token as it is after the login; when the login raises, its error leaves
   refresh_tokens and the token is as before. *)
C10_Refresh401LogsInOnce ==
    (RtDone /\ rt.status = HTTP_UNAUTHORIZED) =>
        /\ rt.logins = 1
        /\ rt.posts = 1
        /\ rt.login = "ok" =>
               /\ rt.result = Return(token)
               /\ token = FreshToken(rt.token0)
        /\ rt.login # "ok" =>
               /\ rt.result = Raise(rt.login)
               /\ token = rt.token0

(* a 401 to the refresh POST was answered by one login whose bundle is returned *)
C10_Witness_LoginAfter401 ==
    /\ RtDone
    /\ rt.status = HTTP_UNAUTHORIZED
    /\ rt.refresh_token # NoneNum
    /\ rt.logins = 1
    /\ rt.login = "ok"
    /\ rt.result = Return(token)
    /\ token # rt.token0

----------------------------------------------------------------------------
(* Properties of refresh_tokens called without a refresh token *)

(* the call had a usable token endpoint and no refresh token, passed or held *)
RefreshWithoutToken ==
    /\ rt.pc # "idle"
    /\ rt.refresh_token = NoneNum

(* C11 as stated: refresh_tokens called while the session holds no refresh
   token, and none is passed, never issues the refresh POST, calls login()
   and returns the resulting token bundle. *)
C11_NoRefreshTokenReturnsLoginToken ==
    (RtDone /\ RefreshWithoutToken) =>
        /\ rt.posts = 0
        /\ rt.logins = 1
        /\ rt.result = Return(token)

(* C11 amended: refresh_tokens called while the session holds no refresh
   token, and none is passed, never issues the refresh POST; with an https
   token endpoint it calls login() exactly once, straight after the argument
   checks, and returns the token bundle of that login when it returns, while
   an error raised by the login leaves refresh_tokens and the token is as
   before; with a missing or insecure endpoint it does not log in at all. *)
C11_NoRefreshTokenNeverPosts ==
    RefreshWithoutToken =>
        /\ rt.posts = 0
        /\ rt.pc # "post"
        /\ rt.status = NoneNum
        /\ RtDone =>
               IF IsSecureTransport(rt.token_url)
               THEN /\ rt.logins = 1
                    /\ rt.login = "ok" =>
                           /\ rt.result = Return(token)
                           /\ token = FreshToken(rt.token0)
                    /\ rt.login # "ok" =>
                           /\ rt.result = Raise(rt.login)
                           /\ token = rt.token0
               ELSE /\ rt.logins = 0
                    /\ rt.result.kind = "raise"
                    /\ token = rt.token0

(* a session holding a bundle without refresh token logged in without a POST *)
C11_Witness_LoginWithoutPost ==
    /\ RtDone
    /\ RefreshWithoutToken
    /\ rt.token0.access_token # NoneNum
    /\ IsSecureTransport(rt.token_url)
    /\ rt.posts = 0
    /\ rt.logins = 1
    /\ rt.result = Return(token)
    /\ token.refresh_token # NoneNum

----------------------------------------------------------------------------
(* Properties of the token endpoint checks *)

FtDone == ft.pc = "done"

(* C12: refresh_tokens and fetch_tokens both raise ValueError when no token
   endpoint is given and raise on a non-https token endpoint, in each case
   before any POST or login. *)
C12_BadEndpointFailsFast ==
    /\ (RtDone /\ rt.token_url = "") =>
           (rt.result = Raise("ValueError") /\ rt.posts = 0 /\ rt.logins = 0)
    /\ (RtDone /\ rt.token_url # "" /\ ~IsSecureTransport(rt.token_url)) =>
           (rt.result = Raise("InsecureTransportError") /\ rt.posts = 0 /\ rt.logins = 0)
    /\ (ft.pc # "idle" /\ ft.token_url = "") =>
           (ft.pc = "done" /\ ft.result = Raise("ValueError") /\ ft.posts = 0)
    /\ (ft.pc # "idle" /\ ft.token_url # "" /\ ~IsSecureTransport(ft.token_url)) =>
           (ft.pc = "done" /\ ft.result = Raise("InsecureTransportError") /\ ft.posts = 0)

----------------------------------------------------------------------------
(* Properties of parse_from_body *)

PbHanded == pb.pc = "done" /\ IsJson(pb.token_response)

(* C13 as stated: in the bundle handed to the generic parser every
   manufacturer key of the answer is replaced by its canonical name with the
   same value, no manufacturer key remains, and every other key of the answer
   is unchanged. *)
C13_KeysNormalizedOthersUnchanged ==
    PbHanded =>
        LET body == JsonLoads(pb.token_response)
            handed == JsonLoads(pb.fixed_token_response)
        IN /\ \A k \in DOMAIN body \cap ManufacturerKeys :
                  CanonicalKey(k) \in DOMAIN handed /\ handed[CanonicalKey(k)] = body[k]
           /\ DOMAIN handed \cap ManufacturerKeys = {}
           /\ \A k \in DOMAIN body \ ManufacturerKeys :
                  k \in DOMAIN handed /\ handed[k] = body[k]

(* C13 amended: in the bundle handed to the generic parser every manufacturer
   key of the answer is replaced by its canonical name with the same value
   (overwriting a value the answer held under that canonical name), no
   manufacturer key remains, every other key of the answer whose name is not
   taken by such a replacement is unchanged, and no key is added besides. *)
C13_KeysNormalized ==
    PbHanded =>
        LET body == JsonLoads(pb.token_response)
            handed == JsonLoads(pb.fixed_token_response)
            renamed == {CanonicalKey(k) : k \in DOMAIN body \cap ManufacturerKeys}
        IN /\ \A k \in DOMAIN body \cap ManufacturerKeys : handed[CanonicalKey(k)] = body[k]
           /\ DOMAIN handed = (DOMAIN body \ ManufacturerKeys) \cup renamed
           /\ \A k \in (DOMAIN body \ ManufacturerKeys) \ renamed : handed[k] = body[k]
           /\ pb.found_tokens = DOMAIN body \cap ManufacturerKeys

(* an answer with two manufacturer keys, a canonical key and another key was
   normalized *)
C13_Witness_MixedAnswerNormalized ==
    /\ PbHanded
    /\ DOMAIN JsonLoads(pb.token_response) = {"accessToken", "refreshToken", "id_token", "expires_in"}
    /\ DOMAIN JsonLoads(pb.fixed_token_response) = {"access_token", "refresh_token", "id_token", "expires_in"}
    /\ JsonLoads(pb.token_response)["accessToken"] # JsonLoads(pb.token_response)["refreshToken"]
    /\ JsonLoads(pb.fixed_token_response)["access_token"] = JsonLoads(pb.token_response)["accessToken"]

----------------------------------------------------------------------------
(* Properties of the debounce of access events *)

(* no message is being handled and no timer of the VIN is pending or running *)
DebounceQuiet(vin) ==
    /\ msg.pc = "idle"
    /\ \A i \in TimerIds :
          (tm[i].state # "unused" /\ tm[i].vin = vin)
              => tm[i].state \notin {"waiting", "called", "running"}

(* C14: the change-access messages of a VIN handled while its timer is still
   pending are coalesced with the one that opened the debounce window, and
   every window results in exactly one fetch_vehicle_status call of the
   delayed re-fetch: never more calls than windows, and as many calls as
   windows once the timers of the VIN have run. *)
C14_OneRefetchPerWindow ==
    \A vin \in Vins :
        /\ access[vin].fetches <= access[vin].windows
        /\ DebounceQuiet(vin) => access[vin].fetches = access[vin].windows

----------------------------------------------------------------------------
(* Properties of the message callback *)

MsgDone == msg.pc = "done"

(* C15: whatever the topic and the payload, no exception leaves the message
   callback for a message that is unparseable or unexpected (no re-fetch was
   made for it). *)
C15_CallbackNeverRaises ==
    (MsgDone /\ msg.calls = <<>>) => msg.result.kind = "return"

(* C16: whatever error ends a re-fetch made by the message callback, the
   callback catches it and returns. *)
C16_RefetchErrorsNeverPropagate ==
    (MsgDone /\ msg.calls # <<>>) => msg.result.kind = "return"

(* the message is a change-charge-mode or change-soc event on a charging topic *)
IsChargingEvent ==
    /\ msg.topic.kind = "service-event"
    /\ msg.topic.name = "charging"
    /\ msg.payload.form = "object"
    /\ msg.payload.name \in {"change-charge-mode", "change-soc"}

(* the charging state derived from the payload differs from the one held *)
ChargingStateChanged ==
    /\ msg.payload.state # None
    /\ DerivedChargingState(msg.payload.state) # msg.before

(* C17 as stated: on a charging event for an electric vehicle the callback
   calls fetch_charging if and only if the charging state derived from the
   payload differs from the state held before the event. *)
C17_RefetchIffStateChanged ==
    (MsgDone /\ IsChargingEvent /\ IsSkodaElectricVehicle(garage[msg.topic.vin])) =>
        /\ ChargingStateChanged => msg.calls = <<"fetch_charging">>
        /\ ~ChargingStateChanged => msg.calls = <<>>

(* C17 amended: on a charging event for an electric vehicle that has an
   electric drive the callback calls fetch_charging, once, if and only if the
   charging state derived from the payload differs from the state held before
   the event; for an electric vehicle without electric drive it makes no REST
   call and leaves the charging state as it was. *)
C17_RefetchIffStateChangedWithDrive ==
    (MsgDone /\ IsChargingEvent /\ IsSkodaElectricVehicle(garage[msg.topic.vin])) =>
        IF garage[msg.topic.vin].electric_drive
        THEN /\ (msg.payload.has_data /\ ChargingStateChanged)
                    => msg.calls = <<"fetch_charging">>
             /\ ~(msg.payload.has_data /\ ChargingStateChanged) => msg.calls = <<>>
             /\ msg.payload.has_data =>
                    (msg.old_charging_state = msg.before
                     /\ msg.charging_state = IF msg.payload.state # None
                                             THEN DerivedChargingState(msg.payload.state)
                                             ELSE msg.before)
        ELSE msg.calls = <<>> /\ ~msg.wrote

(* an event whose state maps to another charging state than the one held
   made the callback fetch the charging data again *)
C17_Witness_RefetchAfterTransition ==
    /\ MsgDone
    /\ IsChargingEvent
    /\ IsSkodaElectricVehicle(garage[msg.topic.vin])
    /\ garage[msg.topic.vin].electric_drive
    /\ msg.before = "CHARGING"
    /\ msg.payload.state = "connectCable"
    /\ msg.charging_state = "OFF"
    /\ msg.calls = <<"fetch_charging">>

(* the message is an operation request with a JSON object as payload *)
IsOperationRequest ==
    /\ msg.topic.kind = "operation-request"
    /\ msg.payload.form = "object"

(* the re-fetch that matches the operation request, None for an unknown one *)
MatchingRefetch(operation_request) ==
    IF operation_request \in AirConditioningRequests THEN "fetch_air_conditioning"
    ELSE IF operation_request \in ChargingRequests THEN "fetch_charging"
    ELSE None

(* C18 as stated: COMPLETED_SUCCESS on an air-conditioning or charging request
   makes exactly one re-fetch of the matching sub-object, IN_PROGRESS makes
   none, every other request name or status makes none and changes nothing in
   the vehicle model. *)
C18_CompletedRequestRefetches ==
    (MsgDone /\ IsOperationRequest) =>
        LET op == MatchingRefetch(msg.topic.name)
        IN IF op # None /\ msg.payload.status = "COMPLETED_SUCCESS"
           THEN msg.calls = <<op>>
           ELSE IF op # None /\ msg.payload.status = "IN_PROGRESS"
           THEN msg.calls = <<>>
           ELSE msg.calls = <<>> /\ ~msg.wrote

(* the garage holds a vehicle for the request: a Skoda vehicle for an
   air-conditioning request, a Skoda electric vehicle for a charging request *)
RequestHasVehicle ==
    \/ /\ msg.topic.name \in AirConditioningRequests
       /\ IsSkodaVehicle(garage[msg.topic.vin])
    \/ /\ msg.topic.name \in ChargingRequests
       /\ IsSkodaElectricVehicle(garage[msg.topic.vin])

(* C18 amended: COMPLETED_SUCCESS on an air-conditioning request for a Skoda
   vehicle of the garage, or on a charging request for a Skoda electric
   vehicle of the garage, makes exactly one re-fetch of the matching
   sub-object; IN_PROGRESS makes none; every other request name or status,
   and every request for a VIN without such a vehicle, makes no re-fetch and
   changes nothing in the vehicle model. *)
C18_CompletedRequestRefetchesKnownVehicle ==
    (MsgDone /\ IsOperationRequest) =>
        LET op == MatchingRefetch(msg.topic.name)
        IN IF RequestHasVehicle /\ msg.payload.status = "COMPLETED_SUCCESS"
           THEN msg.calls = <<op>>
           ELSE msg.calls = <<>> /\ ~msg.wrote

(* a completed charging request made the callback fetch the charging data *)
C18_Witness_ChargingRequestCompleted ==
    /\ MsgDone
    /\ IsOperationRequest
    /\ msg.topic.name = "charging/start-stop-charging"
    /\ msg.payload.status = "COMPLETED_SUCCESS"
    /\ msg.calls = <<"fetch_charging">>
    /\ msg.result = Return(None)

----------------------------------------------------------------------------
(* Properties of the topic subscriptions *)

(* no topic is subscribed twice at the broker while a connection persists *)
NoTopicSubscribedTwice == \A topic \in AllTopics : broker[topic] <= 1

(* a topic is in subscribed_topics only after a successful subscribe *)
TrackedTopicsSubscribed == \A topic \in subscribed_topics : broker[topic] >= 1

(* after a disconnect subscribed_topics is empty *)
EmptyAfterDisconnect == ~mqtt_connected => subscribed_topics = {}

(* a connect called subscribe for every topic of every vehicle it listed and
   had a user id for, unless it found the topic in subscribed_topics *)
ConnectSubscribesAll ==
    (sub["network"].pc = "done" /\ sub["network"].handler = "connect") =>
        \A vin \in sub["network"].listed \ sub["network"].skipped :
            \A topic \in PossibleTopics(vin) :
                topic \in sub["network"].issued \cup sub["network"].found

(* C19: while a connection persists no topic is subscribed twice, a topic is
   in subscribed_topics only after a successful subscribe, after a disconnect
   subscribed_topics is empty, and the next connect subscribes the topic set
   of every vehicle of the garage. *)
C19_NoDuplicateSubscriptions ==
    /\ NoTopicSubscribedTwice
    /\ TrackedTopicsSubscribed
    /\ EmptyAfterDisconnect
    /\ ConnectSubscribesAll

(* the observer's handler for a disabled vehicle has run *)
DisableHandled == sub["garage"].pc = "done" /\ sub["garage"].handler = "disabled"

(* the observer's handler for an enabled vehicle has run *)
EnableHandled == sub["garage"].pc = "done" /\ sub["garage"].handler = "enabled"

(* C20: after the handler of a disabled vehicle has run, subscribed_topics
   holds no topic of that VIN and the topics of all other VINs are as they
   were; the handler of an enabled vehicle calls subscribe for every topic
   of that VIN that is not subscribed yet. *)
C20_GarageMirroredInSubscriptions ==
    /\ DisableHandled =>
        /\ sub["garage"].result = Return(None)
        /\ \A topic \in sub["garage"].after : topic.vin # sub["garage"].vin
        /\ {topic \in sub["garage"].after : topic.vin # sub["garage"].vin}
                = {topic \in sub["garage"].before : topic.vin # sub["garage"].vin}
    /\ (EnableHandled /\ sub["garage"].skipped = {}) =>
            PossibleTopics(sub["garage"].vin)
                = sub["garage"].issued \cup sub["garage"].found

----------------------------------------------------------------------------
(* Properties of the pre-connect hook, stated when the hook has ended *)

PreConnectDone == pq.pc = "done"

PreConnectReturned == PreConnectDone /\ pq.result.kind = "return"

(* C21 as stated: when the hook returns and the client connects, an expired or
   absent access token has been refreshed first, and the password of the
   attempt is the access token the session holds now *)
C21_PasswordIsLiveToken ==
    PreConnectReturned =>
        /\ pq.needed => pq.refreshed
        /\ _password = token.access_token

(* C21 amended: an expired or absent access token is refreshed first, and only
   then. When the hook returns, the password is the session's access token if
   the session holds one that is not expired, and is otherwise what the
   earlier attempt left; when the refresh raises, the hook raises and the
   password is what the earlier attempt left *)
C21_PasswordIsLiveTokenIfHeld ==
    PreConnectDone =>
        /\ pq.needed <=> pq.refreshed
        /\ IF pq.result.kind = "return" /\ HoldsLiveToken
           THEN _password = token.access_token
           ELSE _password = pq.before
        /\ pq.result.kind = "raise" => pq.refreshed

(* a connect attempt that refreshed an expired token and replaced the password
   of the earlier attempt by the new access token *)
C21_Witness_StalePasswordReplaced ==
    /\ PreConnectReturned
    /\ pq.needed
    /\ pq.refreshed
    /\ pq.before # NoneNum
    /\ _password = token.access_token
    /\ _password # pq.before

----------------------------------------------------------------------------
(* Properties of shutdown, stated on the position of the host thread *)

(* shutdown has called mqtt_client.disconnect() *)
FeedDisconnectCalled ==
    main \in {"stop_mqtt", "signal_stop", "close_session", "join_background",
              "join_connect", "persist", "down"}

(* shutdown has returned from loop_stop() *)
FeedLoopStopped ==
    main \in {"signal_stop", "close_session", "join_background", "join_connect",
              "persist", "down"}

(* shutdown has called _stop_event.set(); the background loop may have
   cleared the event since *)
StopSignalled ==
    main \in {"close_session", "join_background", "join_connect", "persist", "down"}

(* shutdown has joined the background thread and the connect thread *)
ThreadsJoined == main \in {"persist", "down"}

(* stop is signalled before the feed is disconnected *)
StopBeforeFeedDisconnect == FeedDisconnectCalled => StopSignalled

(* the feed is disconnected and its loop stopped before the threads are joined *)
FeedStoppedBeforeJoin == main \in {"join_connect", "persist", "down"} => FeedLoopStopped

(* the threads are joined before the HTTP session is closed *)
JoinBeforeSessionClose == session_closed => ThreadsJoined

(* the HTTP session is closed before tokens and cache are persisted *)
SessionCloseBeforePersist == persisted => session_closed

(* C22: shutdown signals stop, then disconnects the feed and stops its loop,
   then joins the background threads, then closes the HTTP session, then
   persists tokens and cache *)
C22_ShutdownOrder ==
    /\ StopBeforeFeedDisconnect
    /\ FeedStoppedBeforeJoin
    /\ JoinBeforeSessionClose
    /\ SessionCloseBeforePersist

(* C22 amended: shutdown disconnects the feed and stops its loop, then signals
   stop, then closes the HTTP session, then joins the background threads, then
   persists tokens and cache *)
C22_ShutdownOrderOfCode ==
    /\ StopSignalled => FeedLoopStopped
    /\ session_closed => StopSignalled
    /\ main \in {"join_connect", "persist", "down"} => session_closed
    /\ persisted => ThreadsJoined

(* a shutdown that ran to its end: both threads ended and joined, the session
   closed, tokens and cache persisted *)
C22_Witness_ShutdownCompleted ==
    /\ main = "down"
    /\ mq.pc = "stopped"
    /\ bg.pc = "stopped"
    /\ cn.pc = "done"
    /\ session_closed
    /\ persisted

----------------------------------------------------------------------------
(* Properties of the promotion, stated on the frame of a finished fetch *)

(* the answer names a car type whose class is not the class of the vehicle *)
TypeMismatch ==
    /\ pr.pc = "done"
    /\ pr.range_data.kind = "data"
    /\ pr.range_data.carType \in KnownCarTypes
    /\ MatchingClass(pr.range_data.carType) # None
    /\ pr.before[pr.vin].kind # MatchingClass(pr.range_data.carType)

(* the VINs the garage holds *)
GarageVins(g) == {v \in Vins : g[v] # NoVehicle}

(* C23: when the answer names a car type that does not match the class of the
   vehicle, the garage holds under the same VIN a new object of the matching
   class with the capabilities and the in-motion flag of the old object; the
   VINs of the garage and the other vehicles are unchanged *)
C23_PromotionKeepsCapabilitiesAndMotion ==
    TypeMismatch =>
        /\ garage[pr.vin].kind = MatchingClass(pr.range_data.carType)
        /\ garage[pr.vin].obj # pr.before[pr.vin].obj
        /\ garage[pr.vin].capabilities = pr.before[pr.vin].capabilities
        /\ garage[pr.vin].in_motion = pr.before[pr.vin].in_motion
        /\ GarageVins(garage) = GarageVins(pr.before)
        /\ \A v \in Vins \ {pr.vin} : garage[v] = pr.before[v]

(* a plain vehicle with a capability and a known in-motion flag was promoted
   to an electric vehicle *)
C23_Witness_PromotedToElectric ==
    /\ TypeMismatch
    /\ pr.before[pr.vin].kind = "SkodaVehicle"
    /\ pr.before[pr.vin].capabilities = {"CHARGING"}
    /\ pr.before[pr.vin].in_motion = "True"
    /\ garage[pr.vin].kind = "SkodaElectricVehicle"

----------------------------------------------------------------------------
(* Properties of the enum-like fields, stated when a field has been read *)

UnknownValueRead == en.pc = "done" /\ en.value \notin KnownValues(en.field)

(* C24: a string outside the known names sets the attribute to the UNKNOWN
   sentinel, never to none, and the fetch or handler does not raise *)
C24_UnknownValueSetsSentinel ==
    UnknownValueRead =>
        /\ en.result.kind = "return"
        /\ en.attribute = UNKNOWN

(* the fields whose unknown strings do not end in the sentinel *)
FieldsWithoutSentinel == {"maxChargeCurrentAc", "autoUnlockPlugWhenCharged", "event.mode"}

(* every other field: an unknown string sets the UNKNOWN sentinel and nothing
   raises *)
UnknownValueSetsSentinelElsewhere ==
    (UnknownValueRead /\ en.field \notin FieldsWithoutSentinel) =>
        /\ en.result.kind = "return"
        /\ en.attribute = UNKNOWN

----------------------------------------------------------------------------
(* Properties of a poll whose login fails on the login page *)

(* the last iteration failed on a 500 answer to the login page *)
LoginPage500 == bg.pc # "unstarted" /\ bg.cause = HTTP_SERVER_ERROR

(* C25: an iteration whose login gets a 500 answer for the login page raises
   a classified error; the loop sets ERROR, waits the configured interval,
   tests the stop flag and runs another iteration unless stop was signalled;
   it neither marks the connector unhealthy nor ends *)
C25_LoginPage500IsRetryable ==
    [][ /\ (BgLeaves("try") /\ bg'.cause = HTTP_SERVER_ERROR) =>
               /\ bg'.err \in ClassifiedErrors
               /\ bg'.pc = "h_state"
               /\ bg'.interval = interval_value
        /\ (BgLeaves("h_state") /\ LoginPage500) =>
               (connection_state' = ERROR /\ bg'.pc = "h_rest")
        /\ (BgLeaves("h_rest") /\ LoginPage500) =>
               (bg'.pc = "wait" /\ bg'.wait = bg.interval)
        /\ (BgLeaves("wait") /\ LoginPage500) => bg'.pc = "while"
        /\ (BgLeaves("while") /\ LoginPage500 /\ ~stop_event) => bg'.pc = "try"
        /\ (bg' # bg /\ LoginPage500 /\ bg'.pc # "try") => (healthy' = healthy)
        /\ (LoginPage500 /\ bg.pc # "try") => bg'.pc \notin {"f_state", "crashed"}
      ]_vars

(* the loop starts another iteration after the wait that followed a 500 answer
   to the login page *)
C25_Witness_RetryAfterLoginPage500 ==
    /\ bg.pc = "try"
    /\ bg.cause = HTTP_SERVER_ERROR
    /\ bg.err = "RetrievalError"
    /\ bg.wait = bg.interval
    /\ bg.wait \in Intervals
    /\ connection_state = ERROR
    /\ healthy
    /\ ~stop_event

----------------------------------------------------------------------------
(* Properties of the command hooks *)

CommandRunning == cm.pc # "idle"

(* honk/flash without a known position *)
PositionMissing == CommandRunning /\ cm.hook = "honk_flash" /\ ~cm.position_known

(* lock/unlock or spin-verify while no S-PIN is configured *)
SpinNotConfigured ==
    CommandRunning /\ cm.hook \in {"lock_unlock", "spin"} /\ cm.spin_config = None

(* the hook ended with a command error and has issued no POST *)
FailedWithoutPost ==
    /\ cm.pc = "done"
    /\ cm.result = Raise("CommandError")
    /\ cm.posts = 0

(* C26 as stated: honk/flash without a known position, and lock/unlock or
   spin-verify while no S-PIN is configured, end with a command error and
   issue no POST *)
C26_PreconditionFailsWithoutPost ==
    (PositionMissing \/ SpinNotConfigured) => FailedWithoutPost

(* the arguments are a dictionary *)
DictArguments == CommandRunning /\ cm.arguments.dict

(* C26 amended: with dictionary arguments, honk/flash without a known
   position, spin-verify while no S-PIN is configured, and lock/unlock while
   no S-PIN is configured and none is passed in the arguments, end with a
   command error and issue no POST; lock/unlock with an S-PIN in its
   arguments and a known command issues its POST *)
C26_PreconditionFailsWithoutPostUnlessSpinPassed ==
    /\ (DictArguments /\ PositionMissing) => FailedWithoutPost
    /\ (DictArguments /\ SpinNotConfigured /\ (cm.hook = "spin" \/ ~cm.arguments.spin))
            => FailedWithoutPost
    /\ (DictArguments /\ cm.hook = "lock_unlock" /\ cm.arguments.spin
            /\ cm.arguments.command \in {"first", "second"} /\ cm.pc = "done")
            => cm.posts = 1

(* a lock command without an S-PIN anywhere failed before its POST *)
C26_Witness_LockWithoutSpin ==
    /\ FailedWithoutPost
    /\ cm.hook = "lock_unlock"
    /\ cm.arguments.dict
    /\ cm.arguments.command = "first"
    /\ ~cm.arguments.spin
    /\ cm.spin_config = None

(* C27: a status other than the expected one raises a command error, and
   every transport exception and every failure of the arguments' shape is
   raised as a command error, never as another kind *)
C27_EveryFailureIsCommandError ==
    cm.pc = "done" =>
        /\ (cm.status \notin {NoneNum, Raised, ExpectedStatus(cm.hook)})
                => cm.result = Raise("CommandError")
        /\ cm.result.kind = "raise" => cm.result.exc = "CommandError"

(* the hooks and failures outside lines 1742, 1757 and 1612 *)
CommandErrorElsewhere ==
    (/\ cm.pc = "done"
     /\ cm.result.kind = "raise"
     /\ ~(cm.hook = "lock_unlock" /\ ~cm.arguments.dict)
     /\ ~(cm.hook = "honk_flash" /\ cm.status = Raised)
     /\ ~(cm.hook = "air_conditioning_start_stop" /\ cm.arguments.temperature = "text"))
        => cm.result.exc = "CommandError"

----------------------------------------------------------------------------
(* Properties of the session manager *)

(* the session of the user is as get_session built it, and the user's session
   held a token at the last persist *)
ReloadedAfterPersist(user) ==
    /\ sm.sessions[user].fresh
    /\ sm.previous[user].live
    /\ sm.previous[user].token # None

(* the session holds what the other held *)
SameContent(session, other) ==
    /\ session.token = other.token
    /\ session.metadata = other.metadata
    /\ session.cache = other.cache

(* the entries of the identifier as they were before the last persist *)
EntryUnchanged(identifier) ==
    /\ sm.tokenstore[identifier] = sm.stored_before[identifier]
    /\ sm.cache[identifier] = sm.cached_before[identifier]

(* C28: a session built by get_session for credentials whose session held a
   token at the last persist holds exactly the persisted token, metadata and
   response cache; the store key of different credentials differs and is the
   same in every run; persist leaves the entry of a session without token
   unchanged *)
C28_PersistReloadRoundTrip ==
    /\ \A user \in Users :
        ReloadedAfterPersist(user) => SameContent(sm.sessions[user], sm.previous[user])
    /\ \A user \in Users :
        (sm.last = "persist" /\ sm.previous[user].live /\ sm.previous[user].token = None)
            => EntryUnchanged(generate_identifier(MY_SKODA, user))

(* a later run has got back the token, metadata and cache an earlier run
   persisted, while another session without token left its entry alone *)
C28_Witness_ReloadedInNextRun ==
    /\ sm.runs = 2
    /\ sm.last = "created"
    /\ ReloadedAfterPersist("u1")
    /\ sm.sessions["u1"].token = "t2"
    /\ sm.sessions["u1"].metadata = "m1"
    /\ sm.sessions["u1"].cache = "c1"
    /\ sm.previous["u2"].live
    /\ sm.previous["u2"].token = None

----------------------------------------------------------------------------
(* Properties of the requests of a poll *)

(* the error kinds of the carconnectivity library a poll can end with *)
TypedErrors ==
    ClassifiedErrors \cup {"AuthenticationError"}

(* a request of the call raised instead of answering, or the login after a
   401 ended with a transport failure *)
TransportFailedInCall ==
    /\ fd.pc = "done"
    /\ \/ fd.status1 = Raised
       \/ fd.status2 = Raised
       \/ fd.login \in TransportErrors

(* C29: a call of _fetch_data in which the GET, the login after a 401 or the
   token refresh failed at the transport level ends with one of the typed
   error kinds, which is what the background loop receives; none of them is
   caught by the loop's clause for unclassified exceptions because of a raw
   transport exception *)
C29_TransportFailuresAreTyped ==
    TransportFailedInCall =>
        /\ fd.result.kind = "raise"
        /\ fd.result.exc \in TypedErrors
        /\ fd.result.exc \notin (TransportErrors \cup PostErrors)
        /\ (CatchingClause(fd.result.exc) = "Exception")
                => fd.result.exc = "AuthenticationError"

(* the refresh inside a GET failed with the transport error of requests and
   the call ended with a retrieval error *)
C29_Witness_RefreshFailureWrapped ==
    /\ fd.pc = "done"
    /\ fd.status1 = Raised
    /\ fd.gets = 1
    /\ expired
    /\ fd.result = Raise("RetrievalError")

----------------------------------------------------------------------------
(* Properties of the interval *)

(* the constructor was given an interval below the minimum and has acted *)
IntervalBelowMinimum ==
    /\ ct.pc \notin {"new", "constructed"}
    /\ ct.config_interval # NoneNum
    /\ ct.config_interval < MinimumInterval

(* no session has been created and no thread started *)
NothingStarted ==
    /\ ~ct.session
    /\ bg = BgUnstarted
    /\ cn.pc = "unstarted"
    /\ mq.pc = "unstarted"

(* the background thread waits between two iterations *)
BgWaits == bg.pc = "wait"

(* C30: the constructor given an interval below 180 s fails with an error
   before a session is created or a thread started, and every wait of the
   background loop lasts at least 180 s: 900 s after a rate-limit error,
   otherwise the interval, which is the configured one or 300 s *)
C30_IntervalFloor ==
    /\ IntervalBelowMinimum =>
        /\ ct.pc = "failed"
        /\ ct.error = "ValueError"
        /\ NothingStarted
    /\ BgWaits =>
        /\ bg.wait >= MinimumInterval
        /\ bg.wait = IF bg.err = "TooManyRequestsError" THEN RateLimitWait ELSE bg.interval
        /\ bg.interval \in (ConfigIntervals \ {NoneNum}) \cup {DefaultInterval}

(* the constructor has refused an interval of 60 s *)
C30_Witness_ShortIntervalRefused ==
    /\ ct.pc = "failed"
    /\ ct.config_interval = 60
    /\ ct.error = "ValueError"
    /\ NothingStarted

(* the loop waits the configured minimum of 180 s after an iteration *)
WaitsConfiguredMinimum ==
    /\ BgWaits
    /\ bg.wait = MinimumInterval
    /\ bg.err = None

----------------------------------------------------------------------------
(* Properties of the refresh answered with 200 *)

(* the refresh was answered with 200 and has returned the parsed bundle *)
RefreshAnswered200 ==
    /\ rt.pc = "done"
    /\ rt.status = HTTP_OK
    /\ rt.result.kind = "return"

(* C31: after a refresh POST answered with 200, the session's token bundle
   holds a refresh token, the previous one if the answer carried none, so
   that the next refresh does not fall back to a login *)
C31_RefreshKeepsRefreshToken ==
    (RefreshAnswered200 /\ rt.refresh_token # NoneNum) =>
        SessionRefreshToken(token) # NoneNum

(* the answers that carry a new refresh token leave the bundle with one *)
RefreshWithNewTokenKeepsOne ==
    (RefreshAnswered200 /\ SessionRefreshToken(rt.result.value) # NoneNum) =>
        SessionRefreshToken(token) # NoneNum

----------------------------------------------------------------------------
(* Properties of the refresh whose POST fails *)

(* refresh_tokens has ended after its POST raised *)
RefreshPostFailed == rt.pc = "done" /\ rt.status = Raised

(* refresh_tokens has ended after a 5xx answer *)
RefreshAnswered5xx == rt.pc = "done" /\ rt.status = HTTP_SERVER_ERROR

(* C32: a refresh whose POST fails with a connection failure logs in exactly
   once and returns the bundle of the login; a refresh answered with a 5xx
   status raises a temporary-authentication error and does not log in *)
C32_ConnectionFailureFallsBackToLogin ==
    /\ RefreshPostFailed =>
        /\ rt.logins = 1
        /\ rt.result = Return(token)
    /\ RefreshAnswered5xx =>
        /\ rt.result = Raise("TemporaryAuthenticationError")
        /\ rt.logins = 0

(* what holds of the claim: the built-in ConnectionError leads to exactly one
   login, whose bundle is returned unless the login raises, and a 5xx answer
   raises a temporary-authentication error without a login *)
BuiltinConnectionErrorFallsBackToLogin ==
    /\ (RefreshPostFailed /\ rt.result # Raise("requests.ConnectionError")) =>
        /\ rt.logins = 1
        /\ rt.result.kind = "return" => rt.result = Return(token)
        /\ rt.result.kind = "raise" => rt.result.exc = rt.login
    /\ RefreshAnswered5xx =>
        /\ rt.result = Raise("TemporaryAuthenticationError")
        /\ rt.logins = 0

----------------------------------------------------------------------------
(* The web login of MySkodaSession2: doWebAuth, auth/my_skoda_session2.py
   62-233.  A URL is the sequence of its parts, so that "in" is the search of
   a part and startswith the comparison of a prefix. *)

(* what a step of doWebAuth leaves alone *)
outsideWebAuth == <<cache, now, max_age, token, fd, rt, ft, pb, loopVars, feedVars,
                    subVars, preVars, shutVars, promoteVars, en, cm, sm, ct, lg>>

NoUrl == <<>>

redirect_uri == <<"skodaconnect", "oidc.login">>

(* the URLs a server can name in a Location header *)
WebUrls == {<<"identity", "signin">>,
            <<"identity", "consent", "marketing">>,
            <<"identity", "consent", "terms">>,
            <<"identity", "terms-and-conditions">>,
            <<"identity", "skodaconnect", "oidc.login">>,
            <<"skodaconnect", "oidc.login", "?", "code">>,
            <<"skodaconnect", "oidc.login", "#", "code">>}

(* part in url *)
UrlContains(url, part) == \E i \in 1..Len(url) : url[i] = part

(* url.startswith(prefix) *)
StartsWith(url, prefix) ==
    /\ Len(url) >= Len(prefix)
    /\ SubSeq(url, 1, Len(prefix)) = prefix

(* url.replace(redirect_uri + '#', 'https://egal?') of a URL that starts with
   redirect_uri + '#' *)
ReplaceFragment(url) ==
    <<"egal", "?">> \o SubSeq(url, Len(redirect_uri) + 2, Len(url))

(* lines 229-232 *)
QueryUrl(url) ==
    IF StartsWith(url, redirect_uri \o <<"#">>) THEN ReplaceFragment(url) ELSE url

HTTP_FOUND == 302
HTTP_SEE_OTHER == 303

LoginFormStatuses == {HTTP_OK, HTTP_FOUND, HTTP_SEE_OTHER, HTTP_SERVER_ERROR, HTTP_NOT_FOUND}

AfterLoginStatuses == {HTTP_OK, HTTP_FOUND, HTTP_SERVER_ERROR}

(* the ways the three forms between the two loops end, lines 95-203 *)
FormOutcomes == {"ok", "AuthenticationError", "APICompatibilityError", "RetrievalError"}

(* the consent URLs a chain has passed, each once, the most recent last *)
Passed(passed, url) ==
    SelectSeq(passed, LAMBDA u : u # url) \o <<url>>

(* doWebAuth ends with an exception; named is the URL its text names *)
WebAuthRaise(exc, named) ==
    wa' = [wa EXCEPT !.pc = "raised", !.result = Raise(exc), !.named = named]

(* doWebAuth(authorizationUrl), lines 62-79 *)
WebAuthCall(authorizationUrl) ==
    /\ wa.pc = "idle"
    /\ wa' = [pc |-> "loginGet", url |-> authorizationUrl, consentURL |-> NoUrl,
              status |-> NoneNum, location |-> NoUrl, requested |-> {},
              passed |-> <<>>, result |-> NoResult, named |-> NoUrl]
    /\ UNCHANGED outsideWebAuth

(* one round of the loop before the login page, lines 80-93 *)
WebAuthLoginResponse(status, location) ==
    /\ wa.pc = "loginGet"
    /\ IF status = HTTP_OK
         THEN wa' = [wa EXCEPT !.pc = "forms", !.status = status, !.location = location]
         ELSE IF status \in {HTTP_FOUND, HTTP_SEE_OTHER}
         THEN IF location # NoUrl
                THEN wa' = [wa EXCEPT !.url = location, !.status = status,
                                      !.location = location]
                ELSE WebAuthRaise("APICompatibilityError", NoUrl)
         ELSE IF status = HTTP_SERVER_ERROR
         THEN WebAuthRaise("RetrievalError", NoUrl)
         ELSE WebAuthRaise("APICompatibilityError", NoUrl)
    /\ UNCHANGED outsideWebAuth

(* the login form, the password form and the check of the user id, lines
   95-203; the last answer names the start of the chain, line 205 *)
WebAuthForms(outcome, location) ==
    /\ wa.pc = "forms"
    /\ IF outcome = "ok"
         THEN wa' = [wa EXCEPT !.pc = "afterCheck", !.url = location,
                               !.consentURL = NoUrl, !.status = NoneNum,
                               !.location = NoUrl]
         ELSE WebAuthRaise(outcome, NoUrl)
    /\ UNCHANGED outsideWebAuth

(* the head of the loop after the login keeps the first consent URL only *)
WebAuthAfterCheck_keepsFirstConsent ==
    /\ wa.pc = "afterCheck"
    /\ LET consent == IF UrlContains(wa.url, "consent") /\ wa.consentURL = NoUrl
                        THEN wa.url ELSE wa.consentURL
           passed == IF UrlContains(wa.url, "consent")
                       THEN Passed(wa.passed, wa.url) ELSE wa.passed
       IN IF UrlContains(wa.url, "terms-and-conditions")
            THEN wa' = [wa EXCEPT !.pc = "raised", !.consentURL = consent,
                                  !.passed = passed,
                                  !.result = Raise("AuthenticationError"),
                                  !.named = wa.url]
            ELSE wa' = [wa EXCEPT !.pc = "afterGet", !.consentURL = consent,
                                  !.passed = passed,
                                  !.requested = @ \cup {wa.url}]
    /\ UNCHANGED outsideWebAuth

(* the head of the loop after the login up to the sending of the GET, lines
   207-214 *)
WebAuthAfterCheck ==
    /\ wa.pc = "afterCheck"
    /\ LET consent == IF UrlContains(wa.url, "consent") THEN wa.url ELSE wa.consentURL
           passed == IF UrlContains(wa.url, "consent")
                       THEN Passed(wa.passed, wa.url) ELSE wa.passed
       IN IF UrlContains(wa.url, "terms-and-conditions")
            THEN wa' = [wa EXCEPT !.pc = "raised", !.consentURL = consent,
                                  !.passed = passed,
                                  !.result = Raise("AuthenticationError"),
                                  !.named = wa.url]
            ELSE wa' = [wa EXCEPT !.pc = "afterGet", !.consentURL = consent,
                                  !.passed = passed,
                                  !.requested = @ \cup {wa.url}]
    /\ UNCHANGED outsideWebAuth

(* the answer of the GET in the loop after the login, lines 214-233 *)
WebAuthAfterResponse(status, location) ==
    /\ wa.pc = "afterGet"
    /\ LET answered == [wa EXCEPT !.status = status, !.location = location]
       IN IF status = HTTP_SERVER_ERROR
            THEN wa' = [answered EXCEPT !.pc = "raised",
                                        !.result = Raise("RetrievalError")]
            ELSE IF location = NoUrl
            THEN IF wa.consentURL # NoUrl
                   THEN wa' = [answered EXCEPT !.pc = "raised",
                                               !.result = Raise("AuthenticationError"),
                                               !.named = wa.consentURL]
                   ELSE wa' = [answered EXCEPT !.pc = "raised",
                                               !.result = Raise("APICompatibilityError")]
            ELSE IF StartsWith(location, redirect_uri)
            THEN wa' = [answered EXCEPT !.pc = "done", !.url = location,
                                        !.result = Return(QueryUrl(location))]
            ELSE wa' = [answered EXCEPT !.pc = "afterCheck", !.url = location]
    /\ UNCHANGED outsideWebAuth

(* the caller has the outcome of doWebAuth *)
WebAuthReturn ==
    /\ wa.pc \in {"done", "raised"}
    /\ wa' = WaIdle
    /\ UNCHANGED outsideWebAuth

InitWebAuth == InitRefresh /\ token = NoToken

NextWebAuth ==
    \/ \E authorizationUrl \in WebUrls : WebAuthCall(authorizationUrl)
    \/ \E status \in LoginFormStatuses, location \in WebUrls \cup {NoUrl} :
            WebAuthLoginResponse(status, location)
    \/ \E outcome \in FormOutcomes, location \in WebUrls : WebAuthForms(outcome, location)
    \/ WebAuthAfterCheck
    \/ \E status \in AfterLoginStatuses, location \in WebUrls \cup {NoUrl} :
            WebAuthAfterResponse(status, location)
    \/ WebAuthReturn

SpecWebAuth == InitWebAuth /\ [][NextWebAuth]_vars

(* the thread that logs in runs on, and every request is answered *)
SpecWebAuthFair == SpecWebAuth /\ WF_vars(NextWebAuth)

(* a URL with 'terms-and-conditions' ends the chain with an authentication
   error that names it, and the URL is not requested *)
TermsRefused ==
    (wa.pc = "afterCheck" /\ UrlContains(wa.url, "terms-and-conditions")) =>
        /\ wa'.pc = "raised"
        /\ wa'.result = Raise("AuthenticationError")
        /\ wa'.named = wa.url
        /\ wa.url \notin wa'.requested

(* the answer to a request of the chain has no Location header: the error is
   the one of the consent, naming the consent URL passed last, or the one of
   the API compatibility when no consent URL was passed *)
DeadEndRaises ==
    /\ wa'.pc = "raised"
    /\ IF wa'.passed # <<>>
         THEN /\ wa'.result = Raise("AuthenticationError")
              /\ wa'.named = wa'.passed[Len(wa'.passed)]
         ELSE wa'.result = Raise("APICompatibilityError")

(* the chain ends well only at a URL that starts with the redirect URI *)
EndsAtRedirectUri == wa'.pc = "done" => StartsWith(wa'.url, redirect_uri)

(* C33: in the chain after the login, a URL containing 'terms-and-conditions'
   raises an authentication error naming it before it is requested; an answer
   without Location raises the consent error naming the consent URL passed
   last, or an API-compatibility error when none was passed; the chain ends
   well only at a URL starting with the redirect URI *)
C33_RedirectChainOutcomes ==
    [][/\ TermsRefused
       /\ (wa.pc = "afterGet" /\ wa'.location = NoUrl) => DeadEndRaises
       /\ EndsAtRedirectUri]_vars

(* C33 as it holds: the status 500 is looked at before the Location header,
   so that an answer with status 500 raises a retrieval error with or without
   a Location header, and the rule of the missing Location header is the rule
   of the other answers *)
C33_RedirectChainOutcomesBut500 ==
    [][/\ TermsRefused
       /\ (wa.pc = "afterGet" /\ wa'.status = HTTP_SERVER_ERROR) =>
            (wa'.pc = "raised" /\ wa'.result = Raise("RetrievalError"))
       /\ (wa.pc = "afterGet" /\ wa'.status # HTTP_SERVER_ERROR
                              /\ wa'.location = NoUrl) => DeadEndRaises
       /\ EndsAtRedirectUri]_vars

(* a chain that passed two consent URLs has ended at an answer without
   Location, and the error names the second *)
C33_Witness_DeadEndAfterTwoConsents ==
    /\ wa.pc = "raised"
    /\ wa.status = HTTP_OK
    /\ wa.location = NoUrl
    /\ Len(wa.passed) = 2
    /\ wa.result = Raise("AuthenticationError")
    /\ wa.named = wa.passed[2]
    /\ wa.named = wa.consentURL

(* doWebAuth follows redirects, before the login page or after the login *)
FollowsRedirects == wa.pc \in {"loginGet", "afterCheck", "afterGet"}

(* the loop has ended: at the login page, at the redirect URI or in an error *)
RedirectsEnded == wa.pc \in {"forms", "done", "raised"}

(* C38: each of the two loops of the web login that follow redirects ends,
   whatever the server answers: at a 200 login page, at the redirect URI, or
   in an error *)
C38_RedirectLoopsTerminate == FollowsRedirects ~> RedirectsEnded

----------------------------------------------------------------------------
(* Properties of the lights events *)

(* the callback handles a service event 'vehicle-status/lights' *)
HandlesLightsEvent ==
    /\ msg.pc # "idle"
    /\ msg.topic.kind = "service-event"
    /\ msg.topic.name = "vehicle-status/lights"

(* C34: a change-lights event makes the callback schedule the delayed
   re-fetch and make no re-fetch of its own, so that a burst of lights events
   of one VIN costs one REST round trip *)
C34_LightsEventsAreDebounced ==
    HandlesLightsEvent =>
        /\ msg.pc # "refetch"
        /\ msg.calls = <<>>

(* what the callback does: a change-lights event with data for a Skoda
   vehicle is answered with one fetch_vehicle_status call of the callback
   itself, and no timer is created *)
LightsEventRefetchesAtOnce ==
    /\ (HandlesLightsEvent /\ msg.payload.form = "object"
            /\ msg.payload.name = "change-lights" /\ msg.payload.has_data
            /\ IsSkodaVehicle(garage[msg.topic.vin])) =>
        \/ msg.pc = "refetch" /\ msg.op = "fetch_vehicle_status"
        \/ msg.pc = "done" /\ msg.calls = <<"fetch_vehicle_status">>
    /\ HandlesLightsEvent => \A i \in TimerIds : tm[i] = UnusedTimer

----------------------------------------------------------------------------
(* Properties of the connect loop of the feed *)

(* the connect thread takes a step *)
CnSteps == cn' # cn

(* the connect call of the step returns: the feed has a connection under way *)
CnConnected == cn.pc = "socket" /\ mq'.link = "pending" /\ mq.link # "pending"

(* C35: the connect loop waits 10 seconds after a refused connection and then
   tests the stop event and connects again; it ends when a connect call has
   returned and when it finds the stop event set, and once ended it makes no
   further connect attempt *)
C35_ConnectLoopRetriesUntilConnected ==
    [][/\ (CnSteps /\ cn'.pc = "wait") => (cn.pc = "socket" /\ cn'.wait = ConnectRetryWait)
       /\ (CnSteps /\ cn.pc = "wait") => cn'.pc = "while"
       /\ (CnSteps /\ cn.pc = "while") => cn'.pc = IF stop_event THEN "done" ELSE "connect"
       /\ CnConnected => cn'.pc = "done"
       /\ cn.pc = "done" => cn' = cn]_vars

(* the loop has ended with the connection made at its second attempt, after
   one refused connection and its wait *)
C35_Witness_ConnectedAtSecondAttempt ==
    /\ cn.pc = "done"
    /\ cn.attempts = 2
    /\ cn.wait = ConnectRetryWait
    /\ mq.was_up
    /\ ~stop_event

----------------------------------------------------------------------------
(* The logins of the threads on the one session of the connector.  The
   background thread polls with _fetch_data; the MQTT thread runs the
   pre-connect hook and the re-fetches of the message callback, which call
   _fetch_data too.  Neither connector.py, mqtt_client.py nor
   my_skoda_session.py takes a lock around refresh or login. *)

LoginThreads == {"background", "mqtt"}

(* what a step of a thread towards or in login leaves alone *)
outsideLogin == <<cache, now, max_age, fd, rt, ft, pb, loopVars, feedVars, subVars,
                  _password, pq, shutVars, promoteVars, en, cm, sm, ct, wa>>

(* what the token endpoint answers to a refresh, or the failure of the POST *)
LoginRefreshAnswers == {"200", "401", "500", "ConnectionError"}

(* the access token of the session runs out *)
TokenExpires ==
    /\ ~expired
    /\ token.access_token # NoneNum
    /\ expired' = TRUE
    /\ UNCHANGED <<token, lg, outsideLogin>>

(* connector.py line 1444: the thread sends the GET of _fetch_data *)
LoginFetchCall(t) ==
    /\ lg[t] = "out"
    /\ lg' = [lg EXCEPT ![t] = "fetch"]
    /\ UNCHANGED <<token, expired, outsideLogin>>

(* connector.py lines 1446-1457: the answer to the GET; a 401 makes the
   thread call session.login() *)
LoginFetchAnswer(t, status) ==
    /\ lg[t] = "fetch"
    /\ lg' = [lg EXCEPT ![t] = IF status = HTTP_UNAUTHORIZED THEN "login" ELSE "out"]
    /\ UNCHANGED <<token, expired, outsideLogin>>

(* mqtt_client.py lines 100-101: the pre-connect hook calls session.refresh() *)
LoginPreConnect ==
    /\ lg["mqtt"] = "out"
    /\ expired \/ token.access_token = NoneNum
    /\ lg' = [lg EXCEPT !["mqtt"] = "refresh"]
    /\ UNCHANGED <<token, expired, outsideLogin>>

(* my_skoda_session.py lines 193-224: refresh_tokens logs in when the session
   has no refresh token, on a 401 and on a ConnectionError *)
LoginRefresh(answer) ==
    /\ lg["mqtt"] = "refresh"
    /\ IF token.refresh_token = NoneNum \/ answer \in {"401", "ConnectionError"}
         THEN /\ lg' = [lg EXCEPT !["mqtt"] = "login"]
              /\ UNCHANGED <<token, expired>>
         ELSE /\ lg' = [lg EXCEPT !["mqtt"] = "out"]
              /\ IF answer = "200"
                   THEN /\ CanLogin
                        /\ token' = FreshToken(token)
                        /\ expired' = FALSE
                   ELSE UNCHANGED <<token, expired>>
    /\ UNCHANGED outsideLogin

(* login() entered only while no other thread is inside it *)
LoginEnter_underLock(t) ==
    /\ lg[t] = "login"
    /\ \A other \in LoginThreads \ {t} : lg[other] # "inside"
    /\ lg' = [lg EXCEPT ![t] = "inside"]
    /\ UNCHANGED <<token, expired, outsideLogin>>

(* my_skoda_session.py lines 58-68: the thread enters login() and starts the
   web authentication *)
LoginEnter(t) ==
    /\ lg[t] = "login"
    /\ lg' = [lg EXCEPT ![t] = "inside"]
    /\ UNCHANGED <<token, expired, outsideLogin>>

(* my_skoda_session.py lines 68-71: the web authentication and fetch_tokens
   end; the bundle is stored in the session, or login raises *)
LoginLeave(t, outcome) ==
    /\ lg[t] = "inside"
    /\ lg' = [lg EXCEPT ![t] = "out"]
    /\ IF outcome = "ok"
         THEN /\ CanLogin
              /\ token' = FreshToken(token)
              /\ expired' = FALSE
         ELSE UNCHANGED <<token, expired>>
    /\ UNCHANGED outsideLogin

InitLogin == InitRefresh

NextLogin ==
    \/ TokenExpires
    \/ \E t \in LoginThreads : LoginFetchCall(t)
    \/ \E t \in LoginThreads, status \in {HTTP_OK, HTTP_UNAUTHORIZED} : LoginFetchAnswer(t, status)
    \/ LoginPreConnect
    \/ \E answer \in LoginRefreshAnswers : LoginRefresh(answer)
    \/ \E t \in LoginThreads : LoginEnter(t)
    \/ \E t \in LoginThreads, outcome \in LoginOutcomes : LoginLeave(t, outcome)

SpecLogin == InitLogin /\ [][NextLogin]_vars

(* C36: refresh and login of the session are not mutually exclusive between
   the threads: a thread that has called login() enters it wherever the other
   thread is, so that both threads are inside login() of the one session at
   the same time *)
C36_LoginNeverWaitsForOtherThread ==
    \A t \in LoginThreads : lg[t] = "login" => ENABLED LoginEnter(t)

(* the background thread is inside login() after a 401 of _fetch_data while
   the MQTT thread is inside login() too *)
C36_Witness_BothThreadsInsideLogin ==
    /\ lg["background"] = "inside"
    /\ lg["mqtt"] = "inside"

----------------------------------------------------------------------------
(* Termination of shutdown: the threads of the connector under fair
   scheduling, with loops that run on beyond the iterations and the connect
   attempts that are counted *)

(* line 191: the loop condition of an iteration that is no longer counted *)
BgWhileOn ==
    /\ bg.pc = "while"
    /\ ~stop_event
    /\ bg.iter = MaxIter
    /\ bg' = [bg EXCEPT !.pc = "try", !.interval = DefaultInterval]
    /\ UNCHANGED <<connection_state, rest_connected, mqtt_connected, healthy,
                   stop_event, interval_value, mq, cn, main, outsideLoop>>

(* line 82 and lines 182-185: the outcome of a connect attempt that is no
   longer counted *)
CnConnectResultOn(outcome) ==
    /\ cn.pc = "socket"
    /\ cn.attempts = MaxAttempts
    /\ IF outcome = "ok"
       THEN /\ cn' = [cn EXCEPT !.pc = "done"]
            /\ mq' = [mq EXCEPT !.link = "pending", !.was_up = TRUE]
       ELSE /\ cn' = [cn EXCEPT !.pc = IF outcome = "ConnectionRefusedError"
                                       THEN "wait" ELSE "crashed",
                                !.wait = IF outcome = "ConnectionRefusedError"
                                         THEN ConnectRetryWait ELSE @]
            /\ UNCHANGED mq
    /\ UNCHANGED <<connection_state, CnFrame>>

(* the steps of the thread that calls startup() and shutdown() *)
MainThread ==
    \/ StartupBackground
    \/ StartupConnect
    \/ StartupMqtt
    \/ StartupHealthy
    \/ ShutdownDisconnect
    \/ ShutdownLoopStop
    \/ ShutdownSignalStop
    \/ ShutdownSessionClose
    \/ ShutdownJoinBackground
    \/ ShutdownJoinConnect
    \/ ShutdownPersist

(* the steps of the background thread *)
BackgroundThread ==
    \/ BgClear
    \/ BgInit
    \/ BgWhile
    \/ BgWhileOn
    \/ \E outcome \in {"ok"} \cup IterationErrors : BgIterate(outcome)
    \/ \E status \in LoginPageStatuses : BgIterateLoginPage(status)
    \/ BgHandleState
    \/ BgHandleRest
    \/ BgFatalState
    \/ BgFatalRest
    \/ BgFatalRaise
    \/ BgSuccessRest
    \/ BgSuccessCheck
    \/ BgSuccessState
    \/ BgWake
    \/ BgExitState
    \/ BgExitRest

(* the steps of the connect thread *)
ConnectThread ==
    \/ CnWhile
    \/ CnConnectState
    \/ \E outcome \in ConnectOutcomes : CnConnectResult(outcome)
    \/ \E outcome \in ConnectOutcomes : CnConnectResultOn(outcome)
    \/ CnWake

(* the steps of the MQTT network thread *)
MqttThread ==
    \/ \E reason_code \in {0, 134} : OnConnectBegin(reason_code)
    \/ OnConnectState
    \/ OnConnectMqtt
    \/ OnDisconnectState
    \/ OnDisconnectMqtt
    \/ MqReconnect

InitShutdown == Init /\ interval_value = DefaultInterval

NextShutdown == MainThread \/ BackgroundThread \/ ConnectThread \/ MqttThread

(* every thread that can take a step takes one in the end: the calls of a
   thread return, and the waits of the loops end after their time or when the
   stop event is set; loop_stop() returns once the network thread is between
   two callbacks, where it is again and again *)
SpecShutdownFair ==
    /\ InitShutdown
    /\ [][NextShutdown]_vars
    /\ SF_vars(MainThread)
    /\ WF_vars(BackgroundThread)
    /\ WF_vars(ConnectThread)
    /\ WF_vars(MqttThread)

(* shutdown() has been called *)
ShutdownCalled == main \in {"stop_mqtt", "signal_stop", "close_session",
                            "join_background", "join_connect", "persist"}

(* shutdown() has returned *)
ShutdownReturned == main = "down"

(* C37: a shutdown() called after startup() returns: both loops see the stop
   event, both threads end and the joins return, also when stop is signalled
   before the background thread has run its first statement *)
C37_ShutdownTerminates == ShutdownCalled ~> ShutdownReturned

----------------------------------------------------------------------------
(* Properties of the table of the debounce timers *)

(* the timers of the VIN that are started and neither cancelled nor fired *)
ScheduledTimers(vin) ==
    {i \in TimerIds : /\ tm[i].state = "waiting"
                      /\ tm[i].vin = vin
                      /\ ~tm[i].cancelled}

(* a VIN has at most one scheduled timer, and its entry is that timer *)
OneScheduledTimer ==
    \A vin \in Vins :
        /\ Cardinality(ScheduledTimers(vin)) <= 1
        /\ \A i \in ScheduledTimers(vin) : delayed_access_function_timers[vin] = i

(* the pop of delayed_access_function finds the entry of its VIN, and the
   entry is the timer that runs it *)
PopFindsOwnEntry ==
    \A i \in TimerIds :
        (tm[i].state = "called" /\ tm'[i].state # "called") =>
            /\ tm'[i].state = "running"
            /\ delayed_access_function_timers[tm[i].vin] = i

(* C39: however the change-access messages and the expiries of the timers
   interleave, a VIN has at most one scheduled timer that is neither
   cancelled nor fired, the entry of the VIN is that timer, and the pop of
   the delayed function finds the entry of its VIN, which is its own timer
   and not a newer one *)
C39_TimerTableConsistent == []OneScheduledTimer /\ [][PopFindsOwnEntry]_vars

----------------------------------------------------------------------------
(* The delayed re-fetch and the promotion of a vehicle.  The callback hands
   the vehicle object it looked up to the timer (kwargs of line 596), the
   background thread replaces the object of the garage in fetch_driving_range,
   and the timer thread calls the re-fetches with the object it was given. *)

(* lines 562-597: a change-access event for a vehicle of the garage; the
   timer of the VIN is cancelled and a new one is started with the vehicle
   object the garage holds now *)
AccessEventArrives(vin) ==
    /\ garage[vin] # NoVehicle
    /\ \E i \in TimerIds : tm[i].state = "unused"
    /\ LET old == delayed_access_function_timers[vin]
           timer == [state |-> "waiting", vin |-> vin, cancelled |-> FALSE,
                     todo |-> <<>>, vehicle |-> garage[vin], in_garage |-> NoVehicle,
                     passed |-> {}]
       IN tm' = [i \in TimerIds |->
                    IF i = NewTimer THEN timer
                    ELSE IF i = old THEN [tm[i] EXCEPT !.cancelled = TRUE]
                    ELSE tm[i]]
    /\ delayed_access_function_timers' =
           [delayed_access_function_timers EXCEPT ![vin] = NewTimer]
    /\ UNCHANGED <<garage, msg, access, outsideFeed>>

(* threading.Timer.run and lines 568-569: the two seconds are over; a timer
   that was not cancelled calls delayed_access_function with the vehicle
   object it was given, which removes the entry of the VIN *)
DelayedFire(timer) ==
    /\ tm[timer].state = "waiting"
    /\ IF tm[timer].cancelled
         THEN /\ tm' = [tm EXCEPT ![timer].state = "dead"]
              /\ UNCHANGED delayed_access_function_timers
         ELSE /\ tm' = [tm EXCEPT ![timer].state = "running",
                                  ![timer].in_garage = garage[tm[timer].vin],
                                  ![timer].todo = DelayedRefetches(tm[timer].vehicle)]
              /\ delayed_access_function_timers' =
                     [delayed_access_function_timers EXCEPT ![tm[timer].vin] = NoTimer]
    /\ UNCHANGED <<garage, msg, access, outsideFeed>>

(* lines 570-592: the next re-fetch is called with the vehicle object of the
   function's argument *)
DelayedRefetch(timer) ==
    /\ tm[timer].state = "running"
    /\ tm' = [tm EXCEPT ![timer].todo = Tail(@),
                        ![timer].passed = @ \cup {[op |-> Head(tm[timer].todo),
                                                   obj |-> tm[timer].vehicle.obj]},
                        ![timer].state = IF Tail(tm[timer].todo) = <<>>
                                         THEN "finished" ELSE "running"]
    /\ UNCHANGED <<garage, msg, delayed_access_function_timers, access, outsideFeed>>

(* the garages the events meet: one vehicle not yet promoted, with or without
   the charging capability *)
DelayedGarages ==
    {g \in PromoteGarages :
        /\ g["VIN1"].kind = "SkodaVehicle"
        /\ g["VIN1"].in_motion = None
        /\ g["VIN2"] = NoVehicle}

(* the driving-range answers the vehicle gets: none, one without time stamp,
   and answers that name an electric or a hybrid car *)
DelayedRangeAnswers ==
    {r \in RangeAnswers : r.kind = "data" => r.carType \in {"electric", "hybrid"}}

NextDelayed ==
    \/ \E vin \in Vins : AccessEventArrives(vin)
    \/ \E timer \in TimerIds : DelayedFire(timer)
    \/ \E timer \in TimerIds : DelayedRefetch(timer)
    \/ \E vin \in Vins, range_data \in DelayedRangeAnswers :
            FetchDrivingRange(vin, range_data)
    \/ FetchDrivingRangeReturn

InitDelayed == InitPromote /\ garage \in DelayedGarages

SpecDelayed == InitDelayed /\ [][NextDelayed]_vars

(* the timers whose function has been called *)
FiredTimers == {i \in TimerIds : tm[i].state \in {"running", "finished"}}

(* C40: the re-fetches of a debounce timer are made on the vehicle object the
   garage holds under the VIN when the timer fires, also when the vehicle was
   promoted between the arrival of the event and the firing of the timer *)
C40_RefetchWritesGarageVehicle ==
    \A i \in FiredTimers :
        \A call \in tm[i].passed : call.obj = tm[i].in_garage.obj

(* a timer has fired after its vehicle was promoted *)
FiredAfterPromotion ==
    \E i \in FiredTimers :
        /\ tm[i].state = "finished"
        /\ tm[i].vehicle.obj # tm[i].in_garage.obj

====
